---------------------------- MODULE Spec2Model ----------------------------
(***************************************************************************)
(* Model of the image-signature attestation engine of the k8s sigstore     *)
(* workload attestor: the LRU signature cache (package sigstorecache) and  *)
(* the engine built on it (package sigstore: skip list, allow list,        *)
(* digest validation, signature fetch, selector extraction, rendering).    *)
(*                                                                         *)
(* Conventions.  A Go pointer, and a Go map that may be nil, is a sequence *)
(* of length at most one: << >> is nil, <<v>> is a non-nil value v.  A Go  *)
(* slice is a sequence; a nil slice and an empty slice are both << >>.     *)
(* container/list is a sequence whose first element is the list's front.   *)
(***************************************************************************)
EXTENDS Integers, Sequences, FiniteSets, TLC

VARIABLES
    size,               \* Cacheimpl.size
    items,              \* Cacheimpl.items, front first
    skippedImages,      \* Sigstoreimpl.skippedImages (nil or key set)
    allowListEnabled,   \* Sigstoreimpl.allowListEnabled
    subjectAllowList,   \* Sigstoreimpl.subjectAllowList (nil or key set)
    rekorURL,           \* Sigstoreimpl.rekorURL
    fault,              \* TRUE once a call has panicked
    hist,               \* the calls made on the cache, oldest first
    last,               \* the last call, its inputs and outcome
    goroutines          \* the call each goroutine is in, and where in it

vars == <<size, items, skippedImages, allowListEnabled, subjectAllowList,
          rekorURL, fault, hist, last, goroutines>>

(***************************************************************************)
(* Bounds of the model.                                                    *)
(***************************************************************************)
MaxSize == 2      \* largest capacity given to NewCache
MaxOps == 4       \* calls on the cache in one run of CacheSpec
MaxSigs == 1      \* signatures the verifier returns in one call
MaxBatch == 2     \* signatures given to one call of ExtractSelectorsFromSignatures

NIL == << >>

Last(s) == s[Len(s)]

(***************************************************************************)
(* Package sigstorecache.                                                  *)
(***************************************************************************)
Item(k, v) == [Key |-> k, Value |-> v]

\* list.List.MoveToFront(e): e is the position of the element (1 = front).
MoveToFront(l, e) ==
    <<l[e]>> \o SubSeq(l, 1, e - 1) \o SubSeq(l, e + 1, Len(l))

\* list.List.PushFront(v)
PushFront(l, v) == <<v>> \o l

\* list.List.Remove(list.Back()) on a non-empty list
RemoveBack(l) == SubSeq(l, 1, Len(l) - 1)

\* Cacheimpl.getElement: the first element, from the front, whose Key is
\* key; 0 stands for the nil element.
getElement(l, key) ==
    IF \E j \in 1..Len(l) : l[j].Key = key
    THEN CHOOSE j \in 1..Len(l) :
            /\ l[j].Key = key
            /\ \A m \in 1..(j - 1) : l[m].Key # key
    ELSE 0

\* A GetSignature that answers a miss with a zero-valued Item.
GetSignatureZeroItem(l, key) ==
    LET e == getElement(l, key) IN
    IF e = 0
    THEN [items |-> l, ret |-> <<Item("", << >>)>>]
    ELSE [items |-> MoveToFront(l, e), ret |-> <<l[e]>>]

\* A GetSignature that leaves the element where it is.
GetSignatureNoMove(l, key) ==
    LET e == getElement(l, key) IN
    IF e = 0
    THEN [items |-> l, ret |-> NIL]
    ELSE [items |-> l, ret |-> <<l[e]>>]

\* Cacheimpl.GetSignature: the list after the call and the returned *Item.
GetSignature(l, key) ==
    LET e == getElement(l, key) IN
    IF e = 0
    THEN [items |-> l, ret |-> NIL]
    ELSE [items |-> MoveToFront(l, e), ret |-> <<l[e]>>]

\* A PutSignature that pushes without ever evicting.
PutSignatureNoEvict(l, n, i) ==
    LET e == getElement(l, i.Key) IN
    IF e # 0
    THEN [items |-> MoveToFront(l, e), panic |-> FALSE]
    ELSE [items |-> PushFront(l, i), panic |-> FALSE]

\* A PutSignature that evicts the front (most recently used) element.
PutSignatureEvictFront(l, n, i) ==
    LET e == getElement(l, i.Key) IN
    IF e # 0
    THEN [items |-> MoveToFront(l, e), panic |-> FALSE]
    ELSE IF Len(l) = n
         THEN IF Len(l) = 0
              THEN [items |-> l, panic |-> TRUE]
              ELSE [items |-> PushFront(Tail(l), i), panic |-> FALSE]
         ELSE [items |-> PushFront(l, i), panic |-> FALSE]

\* A PutSignature that puts a new item at the back of the list.
PutSignaturePushBack(l, n, i) ==
    LET e == getElement(l, i.Key) IN
    IF e # 0
    THEN [items |-> MoveToFront(l, e), panic |-> FALSE]
    ELSE IF Len(l) = n
         THEN IF Len(l) = 0
              THEN [items |-> l, panic |-> TRUE]
              ELSE [items |-> Append(RemoveBack(l), i), panic |-> FALSE]
         ELSE [items |-> Append(l, i), panic |-> FALSE]

\* A PutSignature that does not look the key up before it pushes.
PutSignatureNoLookup(l, n, i) ==
    IF Len(l) = n
    THEN IF Len(l) = 0
         THEN [items |-> l, panic |-> TRUE]
         ELSE [items |-> PushFront(RemoveBack(l), i), panic |-> FALSE]
    ELSE [items |-> PushFront(l, i), panic |-> FALSE]

\* Cacheimpl.PutSignature on a cache of capacity n: the list after the call.
\* An existing key is only moved to the front, its stored Item is kept.
\* When Len = size = 0, items.Back() is nil and list.Remove(nil)
\* dereferences it: the call panics before it changes anything.
PutSignature(l, n, i) ==
    LET e == getElement(l, i.Key) IN
    IF e # 0
    THEN [items |-> MoveToFront(l, e), panic |-> FALSE]
    ELSE IF Len(l) = n
         THEN IF Len(l) = 0
              THEN [items |-> l, panic |-> TRUE]
              ELSE [items |-> PushFront(RemoveBack(l), i), panic |-> FALSE]
         ELSE [items |-> PushFront(l, i), panic |-> FALSE]


(***************************************************************************)
(* Package sigstore: the inputs the engine is run on.                      *)
(***************************************************************************)
signatureVerifiedSelector == "sigstore-validation:passed"

Err(msg) == <<msg>>

\* Image identifiers of container statuses: the empty one, one that does
\* not parse, a tag reference and two digest references of one repository.
EmptyID == ""
InvalidID == "invali|].url.com/some/image"
TagID == "registry/img:latest"
DigestA == "registry/img@sha256:aa"
DigestB == "registry/img@sha256:bb"
ImageIDs == {EmptyID, InvalidID, TagID, DigestA, DigestB}

ContainerIDs == {"c1"}

\* Image identifiers AddSkippedImage is called with.
SkipIDs == {EmptyID, DigestA}

Subject1 == "spirex@example.com"
Subject2 == "https://host/path1"
\* Subjects AddAllowedSubject is called with.
AllowSubjects == {Subject1}

\* name.ParseReference on the identifiers above: a name.Digest, a name.Tag,
\* or an error (empty or malformed reference).
ParseReference(imageName) ==
    CASE imageName = DigestA ->
            [ref |-> [kind |-> "digest", str |-> DigestA, digest |-> "sha256:aa"],
             err |-> NIL]
      [] imageName = DigestB ->
            [ref |-> [kind |-> "digest", str |-> DigestB, digest |-> "sha256:bb"],
             err |-> NIL]
      [] imageName = TagID ->
            [ref |-> [kind |-> "tag", str |-> TagID, digest |-> ""],
             err |-> NIL]
      [] OTHER ->
            [ref |-> [kind |-> "none", str |-> "", digest |-> ""],
             err |-> Err("could not parse reference: " \o imageName)]

\* What fetchImageManifestFunction (remote.Get) can answer: an error, a
\* descriptor with a nil Manifest, or a descriptor with manifest bytes.
ManifestOutcomes ==
    { [Manifest |-> NIL, err |-> Err("manifest unknown")],
      [Manifest |-> NIL, err |-> NIL],
      [Manifest |-> <<"manifestA">>, err |-> NIL],
      [Manifest |-> <<"manifestB">>, err |-> NIL] }

\* v1.SHA256 of the manifest bytes, as hash.String().
SHA256(bytes) ==
    CASE bytes = "manifestA" -> "sha256:aa"
      [] bytes = "manifestB" -> "sha256:bb"
      [] OTHER -> "sha256:00"

\* An oci.Signature: Payload() bytes (json is "ok", "empty", "malformed", or
\* "error" when Payload() itself fails; subject is optional.subject when it
\* is a string), Cert() and Bundle().
Sig(json, subject, cert, bundle) ==
    [payload |-> [json |-> json, subject |-> subject],
     cert |-> cert, bundle |-> bundle]

Cert(emails, uris) == <<[EmailAddresses |-> emails, URIs |-> uris]>>

\* url.URL of a certificate URI; User is "" for a nil Userinfo.
URI(scheme, host, path) ==
    [Scheme |-> scheme, User |-> "", Host |-> host, Path |-> path]

\* url.URL{User: url.User(user), Host: host}
URIWithUser(user, host) ==
    [Scheme |-> "", User |-> user, Host |-> host, Path |-> ""]

\* oci.Bundle: Payload.Body (body is "ok" when it is a base64 string of a
\* JSON body, else "notstring", "badbase64" or "badjson"), Payload.LogID,
\* Payload.IntegratedTime.
Bundle(body, content, logID, integratedTime) ==
    <<[body |-> body, content |-> content, LogID |-> logID,
       IntegratedTime |-> integratedTime]>>

FullBundle == Bundle("ok", "MEUCIG6n", "c0d23d6a", 1638297518)
BareBundle == Bundle("badjson", "", "", 0)

SigCertEmail == Sig("ok", <<"payload@example.com">>, Cert(<<Subject1>>, << >>), FullBundle)
SigCertURI == Sig("ok", NIL, Cert(<< >>, <<URI("https", "host", "/path1")>>), BareBundle)
SigEmptyPayload == Sig("empty", NIL, NIL, NIL)
SigNoBundle == Sig("ok", <<Subject1>>, NIL, NIL)
SigCertNoBundle == Sig("ok", NIL, Cert(<<Subject1>>, << >>), NIL)

\* Signatures the verifier returns.
Signatures == {SigCertEmail, SigCertURI, SigEmptyPayload, SigCertNoBundle}

RECURSIVE SeqsUpTo(_, _)
SeqsUpTo(S, n) ==
    IF n = 0 THEN {<< >>}
    ELSE LET shorter == SeqsUpTo(S, n - 1) IN
         shorter \cup {Append(q, x) : q \in shorter, x \in S}

\* What verifyFunction (cosign.VerifyImageSignatures) can answer.
VerifyOutcomes ==
    { [sigs |-> q, ok |-> b, err |-> e] :
        q \in SeqsUpTo(Signatures, MaxSigs),
        b \in BOOLEAN,
        e \in {NIL, Err("no matching signatures")} }

(***************************************************************************)
(* Package sigstore: digest validation and signature fetch.  A call's      *)
(* trace lists, in order, the steps it ran and whether each succeeded.     *)
(***************************************************************************)
Step(fn, ok) == [fn |-> fn, ok |-> ok]

\* validateRefDigest(ref, digest)
validateRefDigest(ref, digest) ==
    IF ref.kind = "digest"
    THEN IF ref.digest = digest
         THEN [ok |-> TRUE, err |-> NIL]
         ELSE [ok |-> FALSE,
               err |-> Err("Digest " \o digest \o " does not match " \o ref.digest)]
    ELSE [ok |-> FALSE, err |-> Err("Reference " \o ref.str \o " is not a digest")]

\* A ValidateImage that accepts any reference whose manifest was fetched.
ValidateImageNoDigestCheck(ref, m) ==
    IF m.err # NIL THEN [ok |-> FALSE, err |-> m.err]
    ELSE IF m.Manifest = NIL THEN [ok |-> FALSE, err |-> Err("Manifest is nil")]
    ELSE [ok |-> TRUE, err |-> NIL]

\* Sigstoreimpl.ValidateImage(ref), m being what the manifest fetch answers.
ValidateImage(ref, m) ==
    IF m.err # NIL THEN [ok |-> FALSE, err |-> m.err]
    ELSE IF m.Manifest = NIL THEN [ok |-> FALSE, err |-> Err("Manifest is nil")]
    ELSE validateRefDigest(ref, SHA256(m.Manifest[1]))

\* A FetchImageSignatures that returns the signatures of an unverified bundle.
FetchImageSignaturesIgnoreOk(imageName, m, v) ==
    LET p == ParseReference(imageName) IN
    IF p.err # NIL
    THEN [sigs |-> NIL, err |-> Err("Error parsing image reference: " \o p.err[1]),
          trace |-> <<Step("ParseReference", FALSE)>>]
    ELSE
    LET val == ValidateImage(p.ref, m)
        t2 == <<Step("ParseReference", TRUE),
                Step("fetchImageManifestFunction", m.err = NIL),
                Step("ValidateImage", val.ok)>>
    IN
    IF val.err # NIL
    THEN [sigs |-> NIL,
          err |-> Err("Could not validate image reference digest: " \o val.err[1]),
          trace |-> t2]
    ELSE IF v.err # NIL
    THEN [sigs |-> NIL, err |-> Err("Error verifying signature: " \o v.err[1]),
          trace |-> Append(t2, Step("verifyFunction", FALSE))]
    ELSE [sigs |-> v.sigs, err |-> NIL,
          trace |-> Append(t2, Step("verifyFunction", TRUE))]

\* A FetchImageSignatures that goes on to verify after a failed validation.
FetchImageSignaturesNoValidate(imageName, m, v) ==
    LET p == ParseReference(imageName) IN
    IF p.err # NIL
    THEN [sigs |-> NIL, err |-> Err("Error parsing image reference: " \o p.err[1]),
          trace |-> <<Step("ParseReference", FALSE)>>]
    ELSE
    LET val == ValidateImage(p.ref, m)
        t2 == <<Step("ParseReference", TRUE),
                Step("fetchImageManifestFunction", m.err = NIL),
                Step("ValidateImage", val.ok)>>
    IN
    IF v.err # NIL
    THEN [sigs |-> NIL, err |-> Err("Error verifying signature: " \o v.err[1]),
          trace |-> Append(t2, Step("verifyFunction", FALSE))]
    ELSE IF ~v.ok
    THEN [sigs |-> NIL, err |-> Err("Bundle not verified for " \o imageName),
          trace |-> Append(t2, Step("verifyFunction", FALSE))]
    ELSE [sigs |-> v.sigs, err |-> NIL,
          trace |-> Append(t2, Step("verifyFunction", TRUE))]

\* A FetchImageSignatures that asks the verifier a second time after an error.
FetchImageSignaturesRetry(imageName, m, v) ==
    LET p == ParseReference(imageName) IN
    IF p.err # NIL
    THEN [sigs |-> NIL, err |-> Err("Error parsing image reference: " \o p.err[1]),
          trace |-> <<Step("ParseReference", FALSE)>>]
    ELSE
    LET val == ValidateImage(p.ref, m)
        t2 == <<Step("ParseReference", TRUE),
                Step("fetchImageManifestFunction", m.err = NIL),
                Step("ValidateImage", val.ok)>>
    IN
    IF val.err # NIL
    THEN [sigs |-> NIL,
          err |-> Err("Could not validate image reference digest: " \o val.err[1]),
          trace |-> t2]
    ELSE IF v.err # NIL
    THEN [sigs |-> NIL, err |-> Err("Error verifying signature: " \o v.err[1]),
          trace |-> t2 \o <<Step("verifyFunction", FALSE),
                            Step("verifyFunction", FALSE)>>]
    ELSE IF ~v.ok
    THEN [sigs |-> NIL, err |-> Err("Bundle not verified for " \o imageName),
          trace |-> Append(t2, Step("verifyFunction", FALSE))]
    ELSE [sigs |-> v.sigs, err |-> NIL,
          trace |-> Append(t2, Step("verifyFunction", TRUE))]

\* Sigstoreimpl.FetchImageSignatures(imageName), m and v being what the
\* manifest fetch and the verifier answer when they are called.
FetchImageSignatures(imageName, m, v) ==
    LET p == ParseReference(imageName) IN
    IF p.err # NIL
    THEN [sigs |-> NIL, err |-> Err("Error parsing image reference: " \o p.err[1]),
          trace |-> <<Step("ParseReference", FALSE)>>]
    ELSE
    LET val == ValidateImage(p.ref, m)
        t2 == <<Step("ParseReference", TRUE),
                Step("fetchImageManifestFunction", m.err = NIL),
                Step("ValidateImage", val.ok)>>
    IN
    IF val.err # NIL
    THEN [sigs |-> NIL,
          err |-> Err("Could not validate image reference digest: " \o val.err[1]),
          trace |-> t2]
    ELSE IF v.err # NIL
    THEN [sigs |-> NIL, err |-> Err("Error verifying signature: " \o v.err[1]),
          trace |-> Append(t2, Step("verifyFunction", FALSE))]
    ELSE IF ~v.ok
    THEN [sigs |-> NIL, err |-> Err("Bundle not verified for " \o imageName),
          trace |-> Append(t2, Step("verifyFunction", FALSE))]
    ELSE [sigs |-> v.sigs, err |-> NIL,
          trace |-> Append(t2, Step("verifyFunction", TRUE))]

(***************************************************************************)
(* Package sigstore: selector extraction and rendering.                    *)
(***************************************************************************)
Selectors(subject, content, logID, integratedTime, verified) ==
    [Subject |-> subject, Content |-> content, LogID |-> logID,
     IntegratedTime |-> integratedTime, Verified |-> verified]

\* The zero value of SelectorsFromSignatures.
ZeroSelectors == Selectors("", "", "", "", FALSE)

\* A path without its leading slashes.
TrimLeadingSlashes(path) ==
    CASE path = "/path1" -> "path1"
      [] OTHER -> path

\* What url.URL.String() writes after the scheme and the "//" of the
\* authority: user, host, and the path (with a "/" before a relative path
\* that follows a host).
URLAfterSlashes(u) ==
    (IF u.User # "" THEN u.User \o "@" ELSE "") \o u.Host \o
    (IF u.Path # "" /\ TrimLeadingSlashes(u.Path) = u.Path /\ u.Host # ""
     THEN "/" ELSE "") \o
    u.Path

HasAuthority(u) == u.Host # "" \/ u.User # ""

\* url.URL.String()
URLString(u) ==
    (IF u.Scheme # "" THEN u.Scheme \o ":" ELSE "") \o
    (IF (u.Scheme # "" \/ HasAuthority(u)) /\ (HasAuthority(u) \/ u.Path # "")
     THEN "//" ELSE "") \o
    URLAfterSlashes(u)

\* url.URL.String() with the leading slashes removed, as the regular
\* expression ^\/*(?P<email>.*) of certSubject leaves it.
URIWithoutLeadingSlashes(u) ==
    IF u.Scheme # ""
    THEN URLString(u)
    ELSE IF HasAuthority(u)
    THEN URLAfterSlashes(u)
    ELSE TrimLeadingSlashes(u.Path)

\* certSubject(c)
certSubject(c) ==
    CASE c = NIL -> ""
      [] c # NIL /\ c[1].EmailAddresses # << >> -> c[1].EmailAddresses[1]
      [] c # NIL /\ c[1].EmailAddresses = << >> /\ c[1].URIs # << >> ->
            URIWithoutLeadingSlashes(c[1].URIs[1])
      [] OTHER -> ""

\* A getSignatureSubject in which the payload's subject, when there is one,
\* wins over the certificate.
getSignatureSubjectPayloadFirst(sig) ==
    IF sig.payload.json = "error"
    THEN [subject |-> "", err |-> Err("payload unavailable")]
    ELSE IF sig.payload.json # "ok"
    THEN [subject |-> "", err |-> Err("unexpected end of JSON input")]
    ELSE IF sig.payload.subject # NIL
    THEN [subject |-> sig.payload.subject[1], err |-> NIL]
    ELSE IF sig.cert # NIL
    THEN [subject |-> certSubject(sig.cert), err |-> NIL]
    ELSE [subject |-> "", err |-> NIL]

\* getSignatureSubject(signature), for a signature whose Cert() does not
\* fail.  The payload is read and decoded before the certificate is looked
\* at.  A certificate parsed from a signature has nil for a missing list of
\* email addresses or URIs.
getSignatureSubject(sig) ==
    IF sig.payload.json = "error"
    THEN [subject |-> "", err |-> Err("payload unavailable")]
    ELSE IF sig.payload.json # "ok"
    THEN [subject |-> "", err |-> Err("unexpected end of JSON input")]
    ELSE IF sig.cert # NIL
    THEN [subject |-> certSubject(sig.cert), err |-> NIL]
    ELSE IF sig.payload.subject # NIL
    THEN [subject |-> sig.payload.subject[1], err |-> NIL]
    ELSE [subject |-> "", err |-> NIL]

\* getBundleSignatureContent(bundle)
getBundleSignatureContent(bundle) ==
    IF bundle = NIL THEN [content |-> "", err |-> Err("Bundle is nil")]
    ELSE IF bundle[1].body = "notstring"
    THEN [content |-> "", err |-> Err("Payload body is not a string")]
    ELSE IF bundle[1].body # "ok"
    THEN [content |-> "", err |-> Err("cannot decode payload body")]
    ELSE IF bundle[1].content = ""
    THEN [content |-> "", err |-> Err("Bundle payload body has no signature content")]
    ELSE [content |-> bundle[1].content, err |-> NIL]

\* Sigstoreimpl.SelectorValuesFromSignature(signature, containerID) under the
\* allow-list state (enabled, allowList).  With a subject that is not
\* suppressed and a nil bundle, the read of bundle.Payload.LogID dereferences
\* nil: the call panics.
SelectorValuesFromSignature(sig, containerID, enabled, allowList) ==
    LET s == getSignatureSubject(sig) IN
    IF s.err # NIL \/ s.subject = ""
    THEN [sel |-> ZeroSelectors, panic |-> FALSE]
    ELSE
    LET suppress == enabled /\ (allowList = NIL \/ s.subject \notin allowList[1]) IN
    IF suppress
    THEN [sel |-> ZeroSelectors, panic |-> FALSE]
    ELSE IF sig.bundle = NIL
    THEN [sel |-> ZeroSelectors, panic |-> TRUE]
    ELSE
    LET c == getBundleSignatureContent(sig.bundle)
        b == sig.bundle[1]
    IN [sel |-> Selectors(s.subject,
                          IF c.err = NIL THEN c.content ELSE "",
                          b.LogID,
                          IF b.IntegratedTime # 0 THEN ToString(b.IntegratedTime) ELSE "",
                          TRUE),
        panic |-> FALSE]

\* An ExtractSelectorsFromSignatures that keeps the selector of every
\* signature, Verified or not.
RECURSIVE ExtractSelectorsFromSignaturesKeepAll(_, _, _, _)
ExtractSelectorsFromSignaturesKeepAll(signatures, containerID, enabled, allowList) ==
    IF signatures = << >>
    THEN [selectors |-> << >>, panic |-> FALSE]
    ELSE
    LET n == Len(signatures)
        before == ExtractSelectorsFromSignaturesKeepAll(SubSeq(signatures, 1, n - 1),
                                                        containerID, enabled, allowList)
        sigSelectors == SelectorValuesFromSignature(signatures[n], containerID,
                                                    enabled, allowList)
    IN
    IF before.panic \/ sigSelectors.panic
    THEN [selectors |-> << >>, panic |-> TRUE]
    ELSE [selectors |-> Append(before.selectors, sigSelectors.sel), panic |-> FALSE]

\* Sigstoreimpl.ExtractSelectorsFromSignatures(signatures, containerID): the
\* selectors of the signatures whose selector is Verified, in order, unless
\* one of them panics.
RECURSIVE ExtractSelectorsFromSignatures(_, _, _, _)
ExtractSelectorsFromSignatures(signatures, containerID, enabled, allowList) ==
    IF signatures = << >>
    THEN [selectors |-> << >>, panic |-> FALSE]
    ELSE
    LET n == Len(signatures)
        before == ExtractSelectorsFromSignatures(SubSeq(signatures, 1, n - 1),
                                                 containerID, enabled, allowList)
        sigSelectors == SelectorValuesFromSignature(signatures[n], containerID,
                                                    enabled, allowList)
    IN
    IF before.panic \/ sigSelectors.panic
    THEN [selectors |-> << >>, panic |-> TRUE]
    ELSE IF sigSelectors.sel.Verified
    THEN [selectors |-> Append(before.selectors, sigSelectors.sel), panic |-> FALSE]
    ELSE before

\* A selectorsToString that writes the log ID before the content.
selectorsToStringLogIDFirst(selectors, containerID) ==
    (IF selectors.Subject # ""
     THEN <<containerID \o ":image-signature-subject:" \o selectors.Subject>>
     ELSE << >>) \o
    (IF selectors.LogID # ""
     THEN <<containerID \o ":image-signature-logid:" \o selectors.LogID>>
     ELSE << >>) \o
    (IF selectors.Content # ""
     THEN <<containerID \o ":image-signature-content:" \o selectors.Content>>
     ELSE << >>) \o
    (IF selectors.IntegratedTime # ""
     THEN <<containerID \o ":image-signature-integrated-time:" \o selectors.IntegratedTime>>
     ELSE << >>)

\* selectorsToString(selectors, containerID)
selectorsToString(selectors, containerID) ==
    (IF selectors.Subject # ""
     THEN <<containerID \o ":image-signature-subject:" \o selectors.Subject>>
     ELSE << >>) \o
    (IF selectors.Content # ""
     THEN <<containerID \o ":image-signature-content:" \o selectors.Content>>
     ELSE << >>) \o
    (IF selectors.LogID # ""
     THEN <<containerID \o ":image-signature-logid:" \o selectors.LogID>>
     ELSE << >>) \o
    (IF selectors.IntegratedTime # ""
     THEN <<containerID \o ":image-signature-integrated-time:" \o selectors.IntegratedTime>>
     ELSE << >>)

\* A RenderAll that scopes every string by the container "c1".
RECURSIVE RenderAllFirstContainer(_, _)
RenderAllFirstContainer(value, containerID) ==
    IF value = << >> THEN << >>
    ELSE RenderAllFirstContainer(SubSeq(value, 1, Len(value) - 1), "c1")
         \o selectorsToString(value[Len(value)], "c1")

\* The rendering loop of AttestContainerSignatures over a cached value.
RECURSIVE RenderAll(_, _)
RenderAll(value, containerID) ==
    IF value = << >> THEN << >>
    ELSE RenderAll(SubSeq(value, 1, Len(value) - 1), containerID)
         \o selectorsToString(value[Len(value)], containerID)

(***************************************************************************)
(* Package sigstore: skip list, allow list and the attestation call.       *)
(***************************************************************************)
\* A ShouldSkipImage that never finds the image in the skip list.
ShouldSkipImageNeverSkips(skipped, imageID) ==
    IF skipped = NIL THEN [skip |-> FALSE, err |-> NIL]
    ELSE IF imageID = "" THEN [skip |-> FALSE, err |-> Err("Image ID is empty")]
    ELSE [skip |-> FALSE, err |-> NIL]

\* A ShouldSkipImage that tests the identifier before the list.
ShouldSkipImageEmptyFirst(skipped, imageID) ==
    IF imageID = "" THEN [skip |-> FALSE, err |-> Err("Image ID is empty")]
    ELSE IF skipped = NIL THEN [skip |-> FALSE, err |-> NIL]
    ELSE IF imageID \in skipped[1] THEN [skip |-> TRUE, err |-> NIL]
    ELSE [skip |-> FALSE, err |-> NIL]

\* A ShouldSkipImage that looks the identifier up before it tests it.
ShouldSkipImageLookupFirst(skipped, imageID) ==
    IF skipped = NIL THEN [skip |-> FALSE, err |-> NIL]
    ELSE IF imageID \in skipped[1] THEN [skip |-> TRUE, err |-> NIL]
    ELSE IF imageID = "" THEN [skip |-> FALSE, err |-> Err("Image ID is empty")]
    ELSE [skip |-> FALSE, err |-> NIL]

\* Sigstoreimpl.ShouldSkipImage(imageID) on the skip list skipped.
ShouldSkipImage(skipped, imageID) ==
    IF skipped = NIL THEN [skip |-> FALSE, err |-> NIL]
    ELSE IF imageID = "" THEN [skip |-> FALSE, err |-> Err("Image ID is empty")]
    ELSE IF imageID \in skipped[1] THEN [skip |-> TRUE, err |-> NIL]
    ELSE [skip |-> FALSE, err |-> NIL]

\* An AttestContainerSignatures that fetches without looking into the cache.
AttestContainerSignaturesNoLookup(imageID, containerID, m, v) ==
    LET fetched == FetchImageSignatures(imageID, m, v)
        t1 == <<Step("ShouldSkipImage", FALSE)>> \o fetched.trace
    IN
    IF ShouldSkipImage(skippedImages, imageID).skip
    THEN [selectors |-> <<signatureVerifiedSelector>>, err |-> NIL, panic |-> FALSE,
          items |-> items, trace |-> <<Step("ShouldSkipImage", TRUE)>>]
    ELSE IF fetched.err # NIL
    THEN [selectors |-> NIL, err |-> fetched.err, panic |-> FALSE,
          items |-> items, trace |-> t1]
    ELSE
    LET ex == ExtractSelectorsFromSignatures(fetched.sigs, containerID,
                                             allowListEnabled, subjectAllowList)
        put == PutSignature(items, size, Item(imageID, ex.selectors))
    IN
    IF ex.panic \/ put.panic
    THEN [selectors |-> NIL, err |-> NIL, panic |-> TRUE, items |-> items, trace |-> t1]
    ELSE [selectors |-> IF ex.selectors # << >>
                        THEN Append(RenderAll(ex.selectors, containerID),
                                    signatureVerifiedSelector)
                        ELSE NIL,
          err |-> NIL, panic |-> FALSE, items |-> put.items,
          trace |-> Append(t1, Step("PutSignature", TRUE))]

\* An AttestContainerSignatures that stores an empty entry when the fetch fails.
AttestContainerSignaturesCacheFailure(imageID, containerID, m, v) ==
    LET cached == GetSignature(items, imageID)
        fetched == FetchImageSignatures(imageID, m, v)
        t1 == <<Step("ShouldSkipImage", FALSE), Step("GetSignature", FALSE)>>
              \o fetched.trace
        ex == ExtractSelectorsFromSignatures(fetched.sigs, containerID,
                                             allowListEnabled, subjectAllowList)
        put == PutSignature(cached.items, size, Item(imageID, ex.selectors))
        value == IF cached.ret # NIL THEN cached.ret[1].Value ELSE ex.selectors
        out == IF value # << >>
               THEN Append(RenderAll(value, containerID), signatureVerifiedSelector)
               ELSE NIL
    IN
    IF ShouldSkipImage(skippedImages, imageID).skip
    THEN [selectors |-> <<signatureVerifiedSelector>>, err |-> NIL, panic |-> FALSE,
          items |-> items, trace |-> <<Step("ShouldSkipImage", TRUE)>>]
    ELSE IF cached.ret # NIL
    THEN [selectors |-> out, err |-> NIL, panic |-> FALSE, items |-> cached.items,
          trace |-> <<Step("ShouldSkipImage", FALSE), Step("GetSignature", TRUE)>>]
    ELSE IF ex.panic \/ put.panic
    THEN [selectors |-> NIL, err |-> NIL, panic |-> TRUE, items |-> items, trace |-> t1]
    ELSE IF fetched.err # NIL
    THEN [selectors |-> NIL, err |-> fetched.err, panic |-> FALSE,
          items |-> put.items, trace |-> Append(t1, Step("PutSignature", TRUE))]
    ELSE [selectors |-> out, err |-> NIL, panic |-> FALSE, items |-> put.items,
          trace |-> Append(t1, Step("PutSignature", TRUE))]

\* An AttestContainerSignatures that stores nothing when no selector was
\* retained.
AttestContainerSignaturesNoEmptyPut(imageID, containerID, m, v) ==
    LET cached == GetSignature(items, imageID)
        fetched == FetchImageSignatures(imageID, m, v)
        t1 == <<Step("ShouldSkipImage", FALSE), Step("GetSignature", FALSE)>>
              \o fetched.trace
        ex == ExtractSelectorsFromSignatures(fetched.sigs, containerID,
                                             allowListEnabled, subjectAllowList)
        put == PutSignature(cached.items, size, Item(imageID, ex.selectors))
        value == IF cached.ret # NIL THEN cached.ret[1].Value ELSE ex.selectors
        out == IF value # << >>
               THEN Append(RenderAll(value, containerID), signatureVerifiedSelector)
               ELSE NIL
    IN
    IF ShouldSkipImage(skippedImages, imageID).skip
    THEN [selectors |-> <<signatureVerifiedSelector>>, err |-> NIL, panic |-> FALSE,
          items |-> items, trace |-> <<Step("ShouldSkipImage", TRUE)>>]
    ELSE IF cached.ret # NIL
    THEN [selectors |-> out, err |-> NIL, panic |-> FALSE, items |-> cached.items,
          trace |-> <<Step("ShouldSkipImage", FALSE), Step("GetSignature", TRUE)>>]
    ELSE IF fetched.err # NIL
    THEN [selectors |-> NIL, err |-> fetched.err, panic |-> FALSE,
          items |-> cached.items, trace |-> t1]
    ELSE IF ex.panic
    THEN [selectors |-> NIL, err |-> NIL, panic |-> TRUE, items |-> items, trace |-> t1]
    ELSE IF ex.selectors = << >>
    THEN [selectors |-> NIL, err |-> NIL, panic |-> FALSE, items |-> cached.items,
          trace |-> t1]
    ELSE IF put.panic
    THEN [selectors |-> NIL, err |-> NIL, panic |-> TRUE, items |-> items,
          trace |-> Append(t1, Step("PutSignature", FALSE))]
    ELSE [selectors |-> out, err |-> NIL, panic |-> FALSE, items |-> put.items,
          trace |-> Append(t1, Step("PutSignature", TRUE))]

\* An AttestContainerSignatures that looks into the cache before it checks
\* the skip list.
AttestContainerSignaturesCacheFirst(imageID, containerID, m, v) ==
    LET cached == GetSignature(items, imageID)
        fetched == FetchImageSignatures(imageID, m, v)
        t1 == <<Step("ShouldSkipImage", FALSE), Step("GetSignature", FALSE)>>
              \o fetched.trace
        ex == ExtractSelectorsFromSignatures(fetched.sigs, containerID,
                                             allowListEnabled, subjectAllowList)
        put == PutSignature(cached.items, size, Item(imageID, ex.selectors))
        value == IF cached.ret # NIL THEN cached.ret[1].Value ELSE ex.selectors
        out == IF value # << >>
               THEN Append(RenderAll(value, containerID), signatureVerifiedSelector)
               ELSE NIL
    IN
    IF cached.ret # NIL
    THEN [selectors |-> out, err |-> NIL, panic |-> FALSE, items |-> cached.items,
          trace |-> <<Step("ShouldSkipImage", FALSE), Step("GetSignature", TRUE)>>]
    ELSE IF ShouldSkipImage(skippedImages, imageID).skip
    THEN [selectors |-> <<signatureVerifiedSelector>>, err |-> NIL, panic |-> FALSE,
          items |-> items, trace |-> <<Step("ShouldSkipImage", TRUE)>>]
    ELSE IF fetched.err # NIL
    THEN [selectors |-> NIL, err |-> fetched.err, panic |-> FALSE,
          items |-> cached.items, trace |-> t1]
    ELSE IF ex.panic
    THEN [selectors |-> NIL, err |-> NIL, panic |-> TRUE, items |-> items, trace |-> t1]
    ELSE IF put.panic
    THEN [selectors |-> NIL, err |-> NIL, panic |-> TRUE, items |-> items,
          trace |-> Append(t1, Step("PutSignature", FALSE))]
    ELSE [selectors |-> out, err |-> NIL, panic |-> FALSE, items |-> put.items,
          trace |-> Append(t1, Step("PutSignature", TRUE))]

\* An AttestContainerSignatures that appends the sentinel to every output it
\* renders, selectors or not.
AttestContainerSignaturesAlwaysSentinel(imageID, containerID, m, v) ==
    LET cached == GetSignature(items, imageID)
        fetched == FetchImageSignatures(imageID, m, v)
        t1 == <<Step("ShouldSkipImage", FALSE), Step("GetSignature", FALSE)>>
              \o fetched.trace
        ex == ExtractSelectorsFromSignatures(fetched.sigs, containerID,
                                             allowListEnabled, subjectAllowList)
        put == PutSignature(cached.items, size, Item(imageID, ex.selectors))
        value == IF cached.ret # NIL THEN cached.ret[1].Value ELSE ex.selectors
        out == Append(RenderAll(value, containerID), signatureVerifiedSelector)
    IN
    IF ShouldSkipImage(skippedImages, imageID).skip
    THEN [selectors |-> <<signatureVerifiedSelector>>, err |-> NIL, panic |-> FALSE,
          items |-> items, trace |-> <<Step("ShouldSkipImage", TRUE)>>]
    ELSE IF cached.ret # NIL
    THEN [selectors |-> out, err |-> NIL, panic |-> FALSE, items |-> cached.items,
          trace |-> <<Step("ShouldSkipImage", FALSE), Step("GetSignature", TRUE)>>]
    ELSE IF fetched.err # NIL
    THEN [selectors |-> NIL, err |-> fetched.err, panic |-> FALSE,
          items |-> cached.items, trace |-> t1]
    ELSE IF ex.panic
    THEN [selectors |-> NIL, err |-> NIL, panic |-> TRUE, items |-> items, trace |-> t1]
    ELSE IF put.panic
    THEN [selectors |-> NIL, err |-> NIL, panic |-> TRUE, items |-> items,
          trace |-> Append(t1, Step("PutSignature", FALSE))]
    ELSE [selectors |-> out, err |-> NIL, panic |-> FALSE, items |-> put.items,
          trace |-> Append(t1, Step("PutSignature", TRUE))]

\* An AttestContainerSignatures that looks a skipped image up in the cache
\* before it returns the sentinel.
AttestContainerSignaturesSkipRefreshes(imageID, containerID, m, v) ==
    LET cached == GetSignature(items, imageID)
        fetched == FetchImageSignatures(imageID, m, v)
        t1 == <<Step("ShouldSkipImage", FALSE), Step("GetSignature", FALSE)>>
              \o fetched.trace
        ex == ExtractSelectorsFromSignatures(fetched.sigs, containerID,
                                             allowListEnabled, subjectAllowList)
        put == PutSignature(cached.items, size, Item(imageID, ex.selectors))
        value == IF cached.ret # NIL THEN cached.ret[1].Value ELSE ex.selectors
        out == IF value # << >>
               THEN Append(RenderAll(value, containerID), signatureVerifiedSelector)
               ELSE NIL
    IN
    IF ShouldSkipImage(skippedImages, imageID).skip
    THEN [selectors |-> <<signatureVerifiedSelector>>, err |-> NIL, panic |-> FALSE,
          items |-> cached.items,
          trace |-> <<Step("ShouldSkipImage", TRUE),
                      Step("GetSignature", cached.ret # NIL)>>]
    ELSE IF cached.ret # NIL
    THEN [selectors |-> out, err |-> NIL, panic |-> FALSE, items |-> cached.items,
          trace |-> <<Step("ShouldSkipImage", FALSE), Step("GetSignature", TRUE)>>]
    ELSE IF fetched.err # NIL
    THEN [selectors |-> NIL, err |-> fetched.err, panic |-> FALSE,
          items |-> cached.items, trace |-> t1]
    ELSE IF ex.panic
    THEN [selectors |-> NIL, err |-> NIL, panic |-> TRUE, items |-> items, trace |-> t1]
    ELSE IF put.panic
    THEN [selectors |-> NIL, err |-> NIL, panic |-> TRUE, items |-> items,
          trace |-> Append(t1, Step("PutSignature", FALSE))]
    ELSE [selectors |-> out, err |-> NIL, panic |-> FALSE, items |-> put.items,
          trace |-> Append(t1, Step("PutSignature", TRUE))]

\* Sigstoreimpl.AttestContainerSignatures(status) for the status
\* {ImageID: imageID, ContainerID: containerID}, m and v being what the
\* manifest fetch and the verifier answer when they are called: the returned
\* selectors and error, whether the call panicked, the cache list after the
\* call and the call's trace.  The error of ShouldSkipImage is dropped.
AttestContainerSignatures(imageID, containerID, m, v) ==
    LET cached == GetSignature(items, imageID)
        fetched == FetchImageSignatures(imageID, m, v)
        t1 == <<Step("ShouldSkipImage", FALSE), Step("GetSignature", FALSE)>>
              \o fetched.trace
        ex == ExtractSelectorsFromSignatures(fetched.sigs, containerID,
                                             allowListEnabled, subjectAllowList)
        put == PutSignature(cached.items, size, Item(imageID, ex.selectors))
        value == IF cached.ret # NIL THEN cached.ret[1].Value ELSE ex.selectors
        out == IF value # << >>
               THEN Append(RenderAll(value, containerID), signatureVerifiedSelector)
               ELSE NIL
    IN
    IF ShouldSkipImage(skippedImages, imageID).skip
    THEN [selectors |-> <<signatureVerifiedSelector>>, err |-> NIL, panic |-> FALSE,
          items |-> items, trace |-> <<Step("ShouldSkipImage", TRUE)>>]
    ELSE IF cached.ret # NIL
    THEN [selectors |-> out, err |-> NIL, panic |-> FALSE, items |-> cached.items,
          trace |-> <<Step("ShouldSkipImage", FALSE), Step("GetSignature", TRUE)>>]
    ELSE IF fetched.err # NIL
    THEN [selectors |-> NIL, err |-> fetched.err, panic |-> FALSE,
          items |-> cached.items, trace |-> t1]
    ELSE IF ex.panic
    THEN [selectors |-> NIL, err |-> NIL, panic |-> TRUE, items |-> items, trace |-> t1]
    ELSE IF put.panic
    THEN [selectors |-> NIL, err |-> NIL, panic |-> TRUE, items |-> items,
          trace |-> Append(t1, Step("PutSignature", FALSE))]
    ELSE [selectors |-> out, err |-> NIL, panic |-> FALSE, items |-> put.items,
          trace |-> Append(t1, Step("PutSignature", TRUE))]

(***************************************************************************)
(* State machine.                                                          *)
(***************************************************************************)
\* rekor.DefaultSchemes[0], rekor.DefaultHost, rekor.DefaultBasePath
DefaultRekorURL == [Scheme |-> "https", Host |-> "rekor.sigstore.dev", Path |-> "/"]

NoManifest == [Manifest |-> NIL, err |-> NIL]
NoVerify == [sigs |-> NIL, ok |-> FALSE, err |-> NIL]

\* The record of a call: its name and inputs, what it returned (arg and ret
\* for the argument and the result of a call of an extraction or rendering
\* function), the steps it ran and the cache list it started from.
NoCall ==
    [op |-> "none", imageID |-> "", containerID |-> "", m |-> NoManifest,
     v |-> NoVerify, selectors |-> NIL, sigs |-> NIL, ok |-> FALSE, err |-> NIL,
     panic |-> FALSE, trace |-> << >>, preItems |-> << >>, arg |-> NIL, ret |-> NIL]

\* Values stored by direct calls on the cache.
CacheKeys == {DigestA, DigestB, TagID}
CacheValues ==
    { <<Selectors(Subject1, "", "", "", TRUE)>>,
      <<Selectors(Subject2, "", "", "", TRUE)>> }

\* The goroutines that call into one cache or one Sigstoreimpl.
Goroutines == {"g1", "g2"}

\* A goroutine that is in no call.
Idle ==
    [pc |-> "idle", op |-> "none", key |-> "", value |-> NIL, e |-> NIL,
     ret |-> NIL, seen |-> NIL]

\* NewCache(n) and New(cache, logger)
Init ==
    /\ size \in 0..MaxSize
    /\ items = << >>
    /\ skippedImages = NIL
    /\ allowListEnabled = FALSE
    /\ subjectAllowList = NIL
    /\ rekorURL = DefaultRekorURL
    /\ fault = FALSE
    /\ hist = << >>
    /\ last = NoCall
    /\ goroutines = [g \in Goroutines |-> Idle]

CallRecord(op, key, value, ret, pre, panic) ==
    [op |-> op, key |-> key, value |-> value, ret |-> ret, pre |-> pre,
     panic |-> panic]

\* A call of Cacheimpl.GetSignature(key)
CacheGet(key) ==
    /\ ~fault
    /\ Len(hist) < MaxOps
    /\ LET r == GetSignature(items, key) IN
        /\ items' = r.items
        /\ hist' = Append(hist, CallRecord("Get", key, NIL, r.ret, items, FALSE))
    /\ UNCHANGED <<size, skippedImages, allowListEnabled, subjectAllowList,
                   rekorURL, fault, last,
                   goroutines>>

\* A call of Cacheimpl.PutSignature(Item{key, value})
CachePut(key, value) ==
    /\ ~fault
    /\ Len(hist) < MaxOps
    /\ LET r == PutSignature(items, size, Item(key, value)) IN
        /\ items' = r.items
        /\ fault' = r.panic
        /\ hist' = Append(hist, CallRecord("Put", key, value, NIL, items, r.panic))
    /\ UNCHANGED <<size, skippedImages, allowListEnabled, subjectAllowList,
                   rekorURL, last,
                   goroutines>>

CacheNext ==
    \/ \E key \in CacheKeys : CacheGet(key)
    \/ \E key \in CacheKeys, value \in CacheValues : CachePut(key, value)

CacheSpec == Init /\ [][CacheNext]_vars

Contains(q, x) == \E j \in 1..Len(q) : q[j] = x

\* A call of Sigstoreimpl.AttestContainerSignatures; sigs records the
\* signatures the fetch handed to the extraction, if it did.
Attest(imageID, containerID, m, v) ==
    /\ ~fault
    /\ LET r == AttestContainerSignatures(imageID, containerID, m, v) IN
        /\ items' = r.items
        /\ fault' = r.panic
        /\ last' = [NoCall EXCEPT !.op = "AttestContainerSignatures",
                                  !.imageID = imageID,
                                  !.containerID = containerID,
                                  !.sigs = IF Contains(r.trace, Step("verifyFunction", TRUE))
                                           THEN v.sigs ELSE NIL,
                                  !.selectors = r.selectors,
                                  !.err = r.err,
                                  !.panic = r.panic,
                                  !.trace = r.trace,
                                  !.preItems = items]
    /\ UNCHANGED <<size, skippedImages, allowListEnabled, subjectAllowList,
                   rekorURL, hist,
                   goroutines>>

\* Sigstoreimpl.AddSkippedImage(imageID)
AddSkippedImage(imageID) ==
    /\ ~fault
    /\ skippedImages' = IF skippedImages = NIL
                        THEN <<{imageID}>>
                        ELSE <<skippedImages[1] \cup {imageID}>>
    /\ last' = [NoCall EXCEPT !.op = "AddSkippedImage", !.imageID = imageID]
    /\ UNCHANGED <<size, items, allowListEnabled, subjectAllowList, rekorURL,
                   fault, hist,
                   goroutines>>

\* Sigstoreimpl.ClearSkipList()
ClearSkipList ==
    /\ ~fault
    /\ skippedImages' = NIL
    /\ last' = [NoCall EXCEPT !.op = "ClearSkipList"]
    /\ UNCHANGED <<size, items, allowListEnabled, subjectAllowList, rekorURL,
                   fault, hist,
                   goroutines>>

\* Sigstoreimpl.AddAllowedSubject(subject)
AddAllowedSubject(subject) ==
    /\ ~fault
    /\ subjectAllowList' = IF subjectAllowList = NIL
                           THEN <<{subject}>>
                           ELSE <<subjectAllowList[1] \cup {subject}>>
    /\ last' = [NoCall EXCEPT !.op = "AddAllowedSubject"]
    /\ UNCHANGED <<size, items, skippedImages, allowListEnabled, rekorURL,
                   fault, hist,
                   goroutines>>

\* Sigstoreimpl.ClearAllowedSubjects()
ClearAllowedSubjects ==
    /\ ~fault
    /\ subjectAllowList' = NIL
    /\ last' = [NoCall EXCEPT !.op = "ClearAllowedSubjects"]
    /\ UNCHANGED <<size, items, skippedImages, allowListEnabled, rekorURL,
                   fault, hist,
                   goroutines>>

\* Sigstoreimpl.EnableAllowSubjectList(flag)
EnableAllowSubjectList(flag) ==
    /\ ~fault
    /\ allowListEnabled' = flag
    /\ last' = [NoCall EXCEPT !.op = "EnableAllowSubjectList"]
    /\ UNCHANGED <<size, items, skippedImages, subjectAllowList, rekorURL,
                   fault, hist,
                   goroutines>>

Asks(trace, fn) == \E j \in 1..Len(trace) : trace[j].fn = fn

\* The answers of the manifest fetch and of the verifier are drawn only for a
\* call that asks for them.
ManifestAnswers(imageID, containerID) ==
    IF Asks(AttestContainerSignatures(imageID, containerID, NoManifest, NoVerify).trace,
            "fetchImageManifestFunction")
    THEN ManifestOutcomes
    ELSE {NoManifest}

VerifyAnswers(imageID, containerID, m) ==
    IF Asks(AttestContainerSignatures(imageID, containerID, m, NoVerify).trace,
            "verifyFunction")
    THEN VerifyOutcomes
    ELSE {NoVerify}

\* A call of AttestContainerSignatures on any container status, with any
\* answers of the registry and of the verifier.
AttestAny ==
    \E imageID \in ImageIDs, containerID \in ContainerIDs :
        \E m \in ManifestAnswers(imageID, containerID) :
            \E v \in VerifyAnswers(imageID, containerID, m) :
                Attest(imageID, containerID, m, v)

Next ==
    \/ AttestAny
    \/ \E imageID \in SkipIDs : AddSkippedImage(imageID)
    \/ ClearSkipList
    \/ \E subject \in AllowSubjects : AddAllowedSubject(subject)
    \/ ClearAllowedSubjects
    \/ \E flag \in BOOLEAN : EnableAllowSubjectList(flag)

Spec == Init /\ [][Next]_vars

\* A call of Sigstoreimpl.FetchImageSignatures(imageName)
CallFetchImageSignatures(imageName, m, v) ==
    /\ LET r == FetchImageSignatures(imageName, m, v) IN
        last' = [NoCall EXCEPT !.op = "FetchImageSignatures",
                               !.imageID = imageName,
                               !.m = m, !.v = v,
                               !.sigs = r.sigs, !.err = r.err, !.trace = r.trace]
    /\ UNCHANGED <<size, items, skippedImages, allowListEnabled, subjectAllowList,
                   rekorURL, fault, hist,
                   goroutines>>

\* A call of Sigstoreimpl.ValidateImage(ref), ref being the parse of imageName
CallValidateImage(imageName, m) ==
    /\ ParseReference(imageName).err = NIL
    /\ LET r == ValidateImage(ParseReference(imageName).ref, m) IN
        last' = [NoCall EXCEPT !.op = "ValidateImage",
                               !.imageID = imageName,
                               !.m = m,
                               !.ok = r.ok, !.err = r.err]
    /\ UNCHANGED <<size, items, skippedImages, allowListEnabled, subjectAllowList,
                   rekorURL, fault, hist,
                   goroutines>>

FetchNext ==
    \/ \E imageName \in ImageIDs, m \in ManifestOutcomes, v \in VerifyOutcomes :
            CallFetchImageSignatures(imageName, m, v)
    \/ \E imageName \in ImageIDs, m \in ManifestOutcomes :
            CallValidateImage(imageName, m)

FetchSpec == Init /\ [][FetchNext]_vars

\* Signatures given to getSignatureSubject: every payload case with every
\* certificate.  A payload that does not decode carries no subject.
PayloadSubject == "payload@example.com"

PayloadCases ==
    { <<"ok", NIL>>, <<"ok", <<PayloadSubject>>>>, <<"empty", NIL>>,
      <<"malformed", NIL>>, <<"error", NIL>> }

EmailLists ==
    { << >>, <<Subject1>>, <<"example1@example1.com", "example2@example1.com">> }

URILists ==
    { << >>,
      <<URI("https", "host", "/path1")>>,
      <<URIWithUser("example", "example2.com")>>,
      <<URIWithUser("example1", "example2.com"), URI("https", "host", "/path1")>> }

Certificates == {NIL} \cup { Cert(e, u) : e \in EmailLists, u \in URILists }

SubjectSignatures == { Sig(p[1], p[2], c, NIL) : p \in PayloadCases, c \in Certificates }

\* A call of getSignatureSubject(signature)
CallGetSignatureSubject(sig) ==
    /\ last' = [NoCall EXCEPT !.op = "getSignatureSubject",
                              !.sigs = <<sig>>,
                              !.ret = <<getSignatureSubject(sig)>>]
    /\ UNCHANGED <<size, items, skippedImages, allowListEnabled, subjectAllowList,
                   rekorURL, fault, hist,
                   goroutines>>

\* Signatures given to ExtractSelectorsFromSignatures.
SigCertBadPayload == Sig("malformed", NIL, Cert(<<Subject1>>, << >>), FullBundle)
SigEmptyCert == Sig("ok", <<PayloadSubject>>, Cert(<< >>, << >>), FullBundle)

ExtractSignatures == Signatures \cup {SigNoBundle, SigCertBadPayload, SigEmptyCert}

\* A call of Sigstoreimpl.ExtractSelectorsFromSignatures(signatures, containerID)
CallExtractSelectorsFromSignatures(signatures, containerID) ==
    /\ ~fault
    /\ LET r == ExtractSelectorsFromSignatures(signatures, containerID,
                                               allowListEnabled, subjectAllowList)
       IN /\ fault' = r.panic
          /\ last' = [NoCall EXCEPT !.op = "ExtractSelectorsFromSignatures",
                                    !.containerID = containerID,
                                    !.sigs = signatures,
                                    !.panic = r.panic,
                                    !.ret = <<r.selectors>>]
    /\ UNCHANGED <<size, items, skippedImages, allowListEnabled, subjectAllowList,
                   rekorURL, hist,
                   goroutines>>

\* A call of Sigstoreimpl.SelectorValuesFromSignature(sig, containerID)
CallSelectorValuesFromSignature(sig, containerID) ==
    /\ ~fault
    /\ LET r == SelectorValuesFromSignature(sig, containerID,
                                            allowListEnabled, subjectAllowList)
       IN /\ fault' = r.panic
          /\ last' = [NoCall EXCEPT !.op = "SelectorValuesFromSignature",
                                    !.containerID = containerID,
                                    !.arg = <<sig>>,
                                    !.panic = r.panic,
                                    !.ret = IF r.panic THEN NIL ELSE <<r.sel>>]
    /\ UNCHANGED <<size, items, skippedImages, allowListEnabled, subjectAllowList,
                   rekorURL, hist,
                   goroutines>>

\* Selectors and container IDs given to selectorsToString.
SelectorValues ==
    { Selectors(subject, content, logID, integratedTime, verified) :
        subject \in {"", Subject1},
        content \in {"", "MEUCIG6n"},
        logID \in {"", "c0d23d6a"},
        integratedTime \in {"", "1638297518"},
        verified \in BOOLEAN }

RenderContainerIDs == {"c1", "c2"}

\* A call of selectorsToString(selectors, containerID)
CallSelectorsToString(selectors, containerID) ==
    /\ last' = [NoCall EXCEPT !.op = "selectorsToString",
                              !.containerID = containerID,
                              !.arg = <<selectors>>,
                              !.ret = <<selectorsToString(selectors, containerID)>>]
    /\ UNCHANGED <<size, items, skippedImages, allowListEnabled, subjectAllowList,
                   rekorURL, fault, hist,
                   goroutines>>

ExtractNext ==
    \/ \E sig \in SubjectSignatures : CallGetSignatureSubject(sig)
    \/ \E signatures \in SeqsUpTo(ExtractSignatures, MaxBatch),
          containerID \in ContainerIDs :
            CallExtractSelectorsFromSignatures(signatures, containerID)
    \/ \E sig \in ExtractSignatures, containerID \in ContainerIDs :
            CallSelectorValuesFromSignature(sig, containerID)
    \/ \E selectors \in SelectorValues, containerID \in RenderContainerIDs :
            CallSelectorsToString(selectors, containerID)
    \/ \E subject \in AllowSubjects : AddAllowedSubject(subject)
    \/ ClearAllowedSubjects
    \/ \E flag \in BOOLEAN : EnableAllowSubjectList(flag)

ExtractSpec == Init /\ [][ExtractNext]_vars


(***************************************************************************)
(* Goroutines calling GetSignature and PutSignature on one cache.  The     *)
(* cache has no lock: a call is a sequence of steps (the scan of           *)
(* getElement, then each call on the list), and the steps of the calls of  *)
(* different goroutines interleave.  hist records each call when it        *)
(* starts.  An element of the list has an identity (the *list.Element):    *)
(* id is the number of the call that pushed it.                            *)
(***************************************************************************)
MaxCalls == 3     \* calls the goroutines start on the cache in one run
MaxAttests == 2   \* attestations the goroutines start in one run

RaceKeys == {DigestA, DigestB}

Element(id, i) == [Key |-> i.Key, Value |-> i.Value, id |-> id]

InCacheCall(g) == goroutines[g].pc # "idle"

\* Another goroutine is inside a call on the cache.
Racing(g) == \E h \in Goroutines \ {g} : InCacheCall(h)

\* goroutine g calls GetSignature(key)
StartGetSignature(g, key) ==
    /\ ~fault
    /\ ~InCacheCall(g)
    /\ Len(hist) < MaxCalls
    /\ goroutines' = [goroutines EXCEPT ![g] =
                        [Idle EXCEPT !.pc = "getElement", !.op = "GetSignature",
                                     !.key = key]]
    /\ hist' = Append(hist, CallRecord("Get", key, NIL, NIL, items, FALSE))
    /\ UNCHANGED <<size, items, skippedImages, allowListEnabled, subjectAllowList,
                   rekorURL, fault, last>>

\* goroutine g calls PutSignature(Item{key, value})
StartPutSignature(g, key, value) ==
    /\ ~fault
    /\ ~InCacheCall(g)
    /\ Len(hist) < MaxCalls
    /\ goroutines' = [goroutines EXCEPT ![g] =
                        [Idle EXCEPT !.pc = "getElement", !.op = "PutSignature",
                                     !.key = key, !.value = value,
                                     !.seen = Len(hist) + 1]]
    /\ hist' = Append(hist, CallRecord("Put", key, value, NIL, items, FALSE))
    /\ UNCHANGED <<size, items, skippedImages, allowListEnabled, subjectAllowList,
                   rekorURL, fault, last>>

\* e := c.getElement(key), and the test of e that follows it
GetElementStep(g) ==
    LET G == goroutines[g]
        j == getElement(items, G.key)
    IN
    /\ ~fault
    /\ G.pc = "getElement"
    /\ goroutines' = [goroutines EXCEPT ![g] =
            IF j # 0
            THEN [G EXCEPT !.pc = "MoveToFront", !.e = <<items[j]>>]
            ELSE IF G.op = "GetSignature"
            THEN [G EXCEPT !.pc = "idle", !.ret = NIL]
            ELSE [G EXCEPT !.pc = "Len"]]
    /\ UNCHANGED <<size, items, skippedImages, allowListEnabled, subjectAllowList,
                   rekorURL, fault, hist, last>>

\* list.List.MoveToFront(e): nothing when e is no longer an element of the list.
MoveElementToFront(l, e) ==
    IF \E j \in 1..Len(l) : l[j] = e
    THEN MoveToFront(l, CHOOSE j \in 1..Len(l) : l[j] = e)
    ELSE l

\* c.items.MoveToFront(e), and the return that follows it
MoveToFrontStep(g) ==
    LET G == goroutines[g] IN
    /\ ~fault
    /\ G.pc = "MoveToFront"
    /\ items' = MoveElementToFront(items, G.e[1])
    /\ goroutines' = [goroutines EXCEPT ![g] =
            IF G.op = "GetSignature"
            THEN [G EXCEPT !.pc = "idle", !.ret = <<Item(G.e[1].Key, G.e[1].Value)>>]
            ELSE [G EXCEPT !.pc = "idle"]]
    /\ UNCHANGED <<size, skippedImages, allowListEnabled, subjectAllowList,
                   rekorURL, fault, hist, last>>

\* if c.items.Len() == c.size
LenStep(g) ==
    LET G == goroutines[g] IN
    /\ ~fault
    /\ G.pc = "Len"
    /\ goroutines' = [goroutines EXCEPT ![g] =
            [G EXCEPT !.pc = IF Len(items) = size THEN "Remove" ELSE "PushFront"]]
    /\ UNCHANGED <<size, items, skippedImages, allowListEnabled, subjectAllowList,
                   rekorURL, fault, hist, last>>

\* c.items.Remove(c.items.Back()): Back() is nil on an empty list and
\* Remove(nil) panics.
RemoveStep(g) ==
    LET G == goroutines[g] IN
    /\ ~fault
    /\ G.pc = "Remove"
    /\ IF items = << >>
       THEN /\ fault' = TRUE
            /\ UNCHANGED <<items, goroutines>>
       ELSE /\ items' = RemoveBack(items)
            /\ goroutines' = [goroutines EXCEPT ![g] = [G EXCEPT !.pc = "PushFront"]]
            /\ UNCHANGED fault
    /\ UNCHANGED <<size, skippedImages, allowListEnabled, subjectAllowList,
                   rekorURL, hist, last>>

\* c.items.PushFront(i)
PushFrontStep(g) ==
    LET G == goroutines[g] IN
    /\ ~fault
    /\ G.pc = "PushFront"
    /\ items' = PushFront(items, Element(G.seen, Item(G.key, G.value)))
    /\ goroutines' = [goroutines EXCEPT ![g] = [G EXCEPT !.pc = "idle"]]
    /\ UNCHANGED <<size, skippedImages, allowListEnabled, subjectAllowList,
                   rekorURL, fault, hist, last>>

\* A write to the list by one goroutine that overlaps an access by another
\* is a data race: besides the outcomes in which the two calls on the list
\* happen one after the other, the links and the length of the list can be
\* left inconsistent.
TornWrite(g) ==
    /\ ~fault
    /\ goroutines[g].pc \in {"MoveToFront", "Remove", "PushFront"}
    /\ Racing(g)
    /\ fault' = TRUE
    /\ UNCHANGED <<size, items, skippedImages, allowListEnabled, subjectAllowList,
                   rekorURL, hist, last, goroutines>>

RaceNext ==
    \/ \E g \in Goroutines, key \in RaceKeys : StartGetSignature(g, key)
    \/ \E g \in Goroutines, key \in RaceKeys, value \in CacheValues :
            StartPutSignature(g, key, value)
    \/ \E g \in Goroutines : GetElementStep(g)
    \/ \E g \in Goroutines : MoveToFrontStep(g)
    \/ \E g \in Goroutines : LenStep(g)
    \/ \E g \in Goroutines : RemoveStep(g)
    \/ \E g \in Goroutines : PushFrontStep(g)
    \/ \E g \in Goroutines : TornWrite(g)

RaceSpec == Init /\ [][RaceNext]_vars

(***************************************************************************)
(* Goroutines calling ShouldSkipImage, AddSkippedImage and ClearSkipList   *)
(* on one Sigstoreimpl.  The skip list has no lock: every read and write   *)
(* of the field and of the map is a step, and the steps of different       *)
(* goroutines interleave.                                                  *)
(***************************************************************************)
ConcurrentSkipIDs == {DigestA, DigestB}

\* The skip lists that the ClearSkipList calls in progress started from.
ListsBeingCleared ==
    { goroutines[h].seen : h \in { k \in Goroutines : goroutines[k].pc = "clearRange" } }

\* goroutine g calls ShouldSkipImage(imageID)
StartShouldSkipImage(g, imageID) ==
    /\ ~fault
    /\ goroutines[g].pc = "idle"
    /\ goroutines' = [goroutines EXCEPT ![g] =
                        [Idle EXCEPT !.pc = "skipNilCheck", !.op = "ShouldSkipImage",
                                     !.key = imageID]]
    /\ UNCHANGED <<size, items, skippedImages, allowListEnabled, subjectAllowList,
                   rekorURL, fault, hist, last>>

\* if sigstore.skippedImages == nil, and the test of imageID == ""
SkipNilCheck(g) ==
    LET G == goroutines[g] IN
    /\ ~fault
    /\ G.pc = "skipNilCheck"
    /\ goroutines' = [goroutines EXCEPT ![g] =
            IF skippedImages = NIL \/ G.key = ""
            THEN [G EXCEPT !.pc = "idle", !.ret = <<FALSE>>]
            ELSE [G EXCEPT !.pc = "skipLookup"]]
    /\ UNCHANGED <<size, items, skippedImages, allowListEnabled, subjectAllowList,
                   rekorURL, fault, hist, last>>

\* _, ok := sigstore.skippedImages[imageID]; seen records the list that was
\* read and the lists that the clears in progress started from.
SkipLookup(g) ==
    LET G == goroutines[g] IN
    /\ ~fault
    /\ G.pc = "skipLookup"
    /\ goroutines' = [goroutines EXCEPT ![g] =
            [G EXCEPT !.pc = "idle",
                      !.ret = <<skippedImages # NIL /\ G.key \in skippedImages[1]>>,
                      !.seen = <<[list |-> skippedImages,
                                  clearing |-> ListsBeingCleared]>>]]
    /\ UNCHANGED <<size, items, skippedImages, allowListEnabled, subjectAllowList,
                   rekorURL, fault, hist, last>>

\* goroutine g calls ClearSkipList(): the range statement takes the map.
StartClearSkipList(g) ==
    /\ ~fault
    /\ goroutines[g].pc = "idle"
    /\ goroutines' = [goroutines EXCEPT ![g] =
                        [Idle EXCEPT !.pc = "clearRange", !.op = "ClearSkipList",
                                     !.seen = skippedImages]]
    /\ UNCHANGED <<size, items, skippedImages, allowListEnabled, subjectAllowList,
                   rekorURL, fault, hist, last>>

\* delete(sigstore.skippedImages, k) for one key k of the range
ClearDelete(g, k) ==
    LET G == goroutines[g] IN
    /\ ~fault
    /\ G.pc = "clearRange"
    /\ G.seen # NIL
    /\ skippedImages # NIL
    /\ k \in skippedImages[1]
    /\ skippedImages' = <<skippedImages[1] \ {k}>>
    /\ UNCHANGED <<size, items, allowListEnabled, subjectAllowList,
                   rekorURL, fault, hist, last, goroutines>>

\* sigstore.skippedImages = nil, once the range is exhausted
ClearSetNil(g) ==
    LET G == goroutines[g] IN
    /\ ~fault
    /\ G.pc = "clearRange"
    /\ IF G.seen = NIL \/ skippedImages = NIL
       THEN TRUE
       ELSE G.seen[1] \cap skippedImages[1] = {}
    /\ skippedImages' = NIL
    /\ goroutines' = [goroutines EXCEPT ![g] = [G EXCEPT !.pc = "idle"]]
    /\ UNCHANGED <<size, items, allowListEnabled, subjectAllowList,
                   rekorURL, fault, hist, last>>

\* goroutine g calls AddSkippedImage(imageID)
StartAddSkippedImage(g, imageID) ==
    /\ ~fault
    /\ goroutines[g].pc = "idle"
    /\ goroutines' = [goroutines EXCEPT ![g] =
                        [Idle EXCEPT !.pc = "addCheck", !.op = "AddSkippedImage",
                                     !.key = imageID]]
    /\ UNCHANGED <<size, items, skippedImages, allowListEnabled, subjectAllowList,
                   rekorURL, fault, hist, last>>

\* if sigstore.skippedImages == nil { sigstore.skippedImages = make(...) }
AddCheck(g) ==
    LET G == goroutines[g] IN
    /\ ~fault
    /\ G.pc = "addCheck"
    /\ skippedImages' = IF skippedImages = NIL THEN <<{}>> ELSE skippedImages
    /\ goroutines' = [goroutines EXCEPT ![g] = [G EXCEPT !.pc = "addAssign"]]
    /\ UNCHANGED <<size, items, allowListEnabled, subjectAllowList,
                   rekorURL, fault, hist, last>>

\* sigstore.skippedImages[imageID] = true: a panic when the field is nil again
AddAssign(g) ==
    LET G == goroutines[g] IN
    /\ ~fault
    /\ G.pc = "addAssign"
    /\ IF skippedImages = NIL
       THEN /\ fault' = TRUE
            /\ UNCHANGED <<skippedImages, goroutines>>
       ELSE /\ skippedImages' = <<skippedImages[1] \cup {G.key}>>
            /\ goroutines' = [goroutines EXCEPT ![g] = [G EXCEPT !.pc = "idle"]]
            /\ UNCHANGED fault
    /\ UNCHANGED <<size, items, allowListEnabled, subjectAllowList,
                   rekorURL, hist, last>>

\* An access to the map by one goroutine that overlaps a write to it by
\* another is a data race: besides the outcomes in which the two accesses
\* happen one after the other, the runtime can stop the process (concurrent
\* map read and map write).
MapRace(g) ==
    /\ ~fault
    /\ goroutines[g].pc \in {"skipLookup", "clearRange", "addAssign"}
    /\ \E h \in Goroutines \ {g} : goroutines[h].pc \in {"clearRange", "addAssign"}
    /\ fault' = TRUE
    /\ UNCHANGED <<size, items, skippedImages, allowListEnabled, subjectAllowList,
                   rekorURL, hist, last, goroutines>>

SkipListNext ==
    \/ \E g \in Goroutines, imageID \in {EmptyID} \cup ConcurrentSkipIDs :
            StartShouldSkipImage(g, imageID)
    \/ \E g \in Goroutines : SkipNilCheck(g)
    \/ \E g \in Goroutines : SkipLookup(g)
    \/ \E g \in Goroutines : StartClearSkipList(g)
    \/ \E g \in Goroutines, k \in ConcurrentSkipIDs : ClearDelete(g, k)
    \/ \E g \in Goroutines : ClearSetNil(g)
    \/ \E g \in Goroutines, imageID \in ConcurrentSkipIDs :
            StartAddSkippedImage(g, imageID)
    \/ \E g \in Goroutines : AddCheck(g)
    \/ \E g \in Goroutines : AddAssign(g)
    \/ \E g \in Goroutines : MapRace(g)

SkipListSpec == Init /\ [][SkipListNext]_vars

(***************************************************************************)
(* Goroutines calling AttestContainerSignatures on one Sigstoreimpl.  Each *)
(* call on the cache runs here in one step; the steps of the attestations  *)
(* of different goroutines interleave between the skip check, the lookup,  *)
(* the fetch with the extraction, the put and the rendering.  hist records *)
(* the puts in the order in which they ran.                                *)
(***************************************************************************)
InFlight == { g \in Goroutines : goroutines[g].pc # "idle" }

\* goroutine g calls AttestContainerSignatures({ImageID: imageID, ...})
StartAttest(g, imageID) ==
    /\ ~fault
    /\ goroutines[g].pc = "idle"
    /\ Len(hist) + Cardinality(InFlight) < MaxAttests
    /\ goroutines' = [goroutines EXCEPT ![g] =
                        [Idle EXCEPT !.pc = "attestSkip",
                                     !.op = "AttestContainerSignatures",
                                     !.key = imageID]]
    /\ UNCHANGED <<size, items, skippedImages, allowListEnabled, subjectAllowList,
                   rekorURL, fault, hist, last>>

\* skip, _ := sigstore.ShouldSkipImage(status.ImageID)
AttestSkip(g) ==
    LET G == goroutines[g] IN
    /\ ~fault
    /\ G.pc = "attestSkip"
    /\ goroutines' = [goroutines EXCEPT ![g] =
            IF ShouldSkipImage(skippedImages, G.key).skip
            THEN [G EXCEPT !.pc = "idle", !.ret = <<signatureVerifiedSelector>>]
            ELSE [G EXCEPT !.pc = "attestGet"]]
    /\ UNCHANGED <<size, items, skippedImages, allowListEnabled, subjectAllowList,
                   rekorURL, fault, hist, last>>

\* cachedSignature := sigstore.sigstorecache.GetSignature(cacheKey)
AttestGet(g) ==
    LET G == goroutines[g]
        cached == GetSignature(items, G.key)
    IN
    /\ ~fault
    /\ G.pc = "attestGet"
    /\ items' = cached.items
    /\ goroutines' = [goroutines EXCEPT ![g] =
            IF cached.ret # NIL
            THEN [G EXCEPT !.pc = "attestRender", !.value = cached.ret[1].Value,
                           !.seen = <<"hit">>]
            ELSE [G EXCEPT !.pc = "attestFetch", !.seen = <<"miss">>]]
    /\ UNCHANGED <<size, skippedImages, allowListEnabled, subjectAllowList,
                   rekorURL, fault, hist, last>>

\* sigstore.FetchImageSignatures(status.ImageID) with the answers m and v of
\* the registry and of the verifier, then ExtractSelectorsFromSignatures
AttestFetch(g, m, v) ==
    LET G == goroutines[g]
        fetched == FetchImageSignatures(G.key, m, v)
        ex == ExtractSelectorsFromSignatures(fetched.sigs, "c1",
                                             allowListEnabled, subjectAllowList)
    IN
    /\ ~fault
    /\ G.pc = "attestFetch"
    /\ IF fetched.err # NIL
       THEN /\ goroutines' = [goroutines EXCEPT ![g] = [G EXCEPT !.pc = "idle"]]
            /\ UNCHANGED fault
       ELSE IF ex.panic
       THEN /\ fault' = TRUE
            /\ UNCHANGED goroutines
       ELSE /\ goroutines' = [goroutines EXCEPT ![g] =
                    [G EXCEPT !.pc = "attestPut", !.value = ex.selectors]]
            /\ UNCHANGED fault
    /\ UNCHANGED <<size, items, skippedImages, allowListEnabled, subjectAllowList,
                   rekorURL, hist, last>>

\* sigstore.sigstorecache.PutSignature(*cachedSignature)
AttestPut(g) ==
    LET G == goroutines[g]
        put == PutSignature(items, size, Item(G.key, G.value))
    IN
    /\ ~fault
    /\ G.pc = "attestPut"
    /\ items' = put.items
    /\ fault' = put.panic
    /\ hist' = Append(hist, CallRecord("Put", G.key, G.value, NIL, items, put.panic))
    /\ goroutines' = [goroutines EXCEPT ![g] = [G EXCEPT !.pc = "attestRender"]]
    /\ UNCHANGED <<size, skippedImages, allowListEnabled, subjectAllowList,
                   rekorURL, last>>

\* the rendering loop and the return
AttestRender(g) ==
    LET G == goroutines[g] IN
    /\ ~fault
    /\ G.pc = "attestRender"
    /\ goroutines' = [goroutines EXCEPT ![g] =
            [G EXCEPT !.pc = "idle",
                      !.ret = IF G.value # << >>
                              THEN Append(RenderAll(G.value, "c1"),
                                          signatureVerifiedSelector)
                              ELSE NIL]]
    /\ UNCHANGED <<size, items, skippedImages, allowListEnabled, subjectAllowList,
                   rekorURL, fault, hist, last>>

\* The answers of the manifest fetch and of the verifier are drawn only for a
\* fetch that asks for them.
FetchManifestAnswers(imageID) ==
    IF Asks(FetchImageSignatures(imageID, NoManifest, NoVerify).trace,
            "fetchImageManifestFunction")
    THEN ManifestOutcomes
    ELSE {NoManifest}

FetchVerifyAnswers(imageID, m) ==
    IF Asks(FetchImageSignatures(imageID, m, NoVerify).trace, "verifyFunction")
    THEN VerifyOutcomes
    ELSE {NoVerify}

\* The fetch step of goroutine g with any answers of the registry and of
\* the verifier.
AttestFetchAny(g) ==
    \E m \in FetchManifestAnswers(goroutines[g].key) :
        \E v \in FetchVerifyAnswers(goroutines[g].key, m) :
            AttestFetch(g, m, v)

ConcurrentAttestNext ==
    \/ \E g \in Goroutines, imageID \in RaceKeys : StartAttest(g, imageID)
    \/ \E g \in Goroutines : AttestSkip(g)
    \/ \E g \in Goroutines : AttestGet(g)
    \/ \E g \in Goroutines : AttestFetchAny(g)
    \/ \E g \in Goroutines : AttestPut(g)
    \/ \E g \in Goroutines : AttestRender(g)

ConcurrentAttestSpec == Init /\ [][ConcurrentAttestNext]_vars

(***************************************************************************)
(* The transparency-log endpoint (RekorSpec).  A URL string is a sequence  *)
(* of tokens: a word (letters, then letters, digits, ".", "+" or "-"), a   *)
(* run of digits, ":", "/", "{" (a byte a host name cannot hold) or DEL    *)
(* (a control byte).  No token holds "#", "?", "%", "@" or "[".            *)
(***************************************************************************)
DEL == "\\x7f"
Words == {"https", "http", "rekor.example", "api"}
Digits == {"8080"}

RECURSIVE Concat(_)
Concat(tokens) ==
    IF tokens = << >> THEN "" ELSE Head(tokens) \o Concat(Tail(tokens))

\* strings.Index: the first position of token c in s, 0 when it is absent
Index(s, c) ==
    IF \E j \in 1..Len(s) : s[j] = c
    THEN CHOOSE j \in 1..Len(s) : s[j] = c /\ \A k \in 1..(j - 1) : s[k] # c
    ELSE 0

\* strings.LastIndex
LastIndex(s, c) ==
    IF \E j \in 1..Len(s) : s[j] = c
    THEN CHOOSE j \in 1..Len(s) : s[j] = c /\ \A k \in (j + 1)..Len(s) : s[k] # c
    ELSE 0

HasPrefix(s, prefix) ==
    Len(s) >= Len(prefix) /\ SubSeq(s, 1, Len(prefix)) = prefix

\* net/url getScheme, reading rawURL from position i
RECURSIVE getSchemeFrom(_, _)
getSchemeFrom(rawURL, i) ==
    IF i > Len(rawURL)
    THEN [scheme |-> "", path |-> rawURL, err |-> NIL]
    ELSE CASE rawURL[i] \in Words -> getSchemeFrom(rawURL, i + 1)
           [] rawURL[i] \in Digits ->
                IF i = 1
                THEN [scheme |-> "", path |-> rawURL, err |-> NIL]
                ELSE getSchemeFrom(rawURL, i + 1)
           [] rawURL[i] = ":" ->
                IF i = 1
                THEN [scheme |-> "", path |-> << >>,
                      err |-> Err("missing protocol scheme")]
                ELSE [scheme |-> Concat(SubSeq(rawURL, 1, i - 1)),
                      path |-> SubSeq(rawURL, i + 1, Len(rawURL)),
                      err |-> NIL]
           [] OTHER -> [scheme |-> "", path |-> rawURL, err |-> NIL]

getScheme(rawURL) == getSchemeFrom(rawURL, 1)

\* net/url validOptionalPort
validOptionalPort(port) ==
    \/ port = << >>
    \/ /\ port[1] = ":"
       /\ \A j \in 2..Len(port) : port[j] \in Digits

\* net/url parseHost, for a host without brackets or escapes
parseHost(host) ==
    LET i == LastIndex(host, ":") IN
    IF i # 0 /\ ~validOptionalPort(SubSeq(host, i, Len(host)))
    THEN [host |-> "", err |-> Err("invalid port after host")]
    ELSE IF Index(host, "{") # 0
    THEN [host |-> "", err |-> Err("invalid character in host name")]
    ELSE [host |-> Concat(host), err |-> NIL]

ZeroURL == [Scheme |-> "", Opaque |-> "", Host |-> "", Path |-> ""]

\* url.Parse(rawURL)
Parse(rawURL) ==
    IF Index(rawURL, DEL) # 0
    THEN [url |-> ZeroURL, err |-> Err("net/url: invalid control character in URL")]
    ELSE LET s == getScheme(rawURL)
             rest == s.path
             segment == IF Index(rest, "/") = 0 THEN rest
                        ELSE SubSeq(rest, 1, Index(rest, "/") - 1)
             afterSlashes == SubSeq(rest, 3, Len(rest))
             cut == Index(afterSlashes, "/")
             authority == IF cut = 0 THEN afterSlashes
                          ELSE SubSeq(afterSlashes, 1, cut - 1)
             path == IF cut = 0 THEN << >>
                     ELSE SubSeq(afterSlashes, cut, Len(afterSlashes))
             h == parseHost(authority)
         IN
         IF s.err # NIL
         THEN [url |-> ZeroURL, err |-> s.err]
         ELSE IF ~HasPrefix(rest, <<"/">>) /\ s.scheme # ""
         THEN [url |-> [ZeroURL EXCEPT !.Scheme = s.scheme,
                                       !.Opaque = Concat(rest)],
               err |-> NIL]
         ELSE IF ~HasPrefix(rest, <<"/">>) /\ Index(segment, ":") # 0
         THEN [url |-> ZeroURL,
               err |-> Err("first path segment in URL cannot contain colon")]
         ELSE IF (s.scheme # "" \/ ~HasPrefix(rest, <<"/", "/", "/">>))
                 /\ HasPrefix(rest, <<"/", "/">>)
         THEN IF h.err # NIL
              THEN [url |-> ZeroURL, err |-> h.err]
              ELSE [url |-> [ZeroURL EXCEPT !.Scheme = s.scheme,
                                            !.Host = h.host,
                                            !.Path = Concat(path)],
                    err |-> NIL]
         ELSE [url |-> [ZeroURL EXCEPT !.Scheme = s.scheme,
                                       !.Path = Concat(rest)],
               err |-> NIL]

\* A SetRekorURL that stores the parsed URL before it checks scheme and host.
SetRekorURLStoreFirst(old, rawURL) ==
    LET p == Parse(rawURL)
        stored == [Scheme |-> p.url.Scheme, Host |-> p.url.Host,
                   Path |-> p.url.Path]
    IN
    IF rawURL = << >>
    THEN [err |-> Err("Rekor URL is empty"), rekorURL |-> old]
    ELSE IF p.err # NIL
    THEN [err |-> Err("Error parsing rekor URI: " \o p.err[1]), rekorURL |-> old]
    ELSE IF p.url.Scheme # "" /\ p.url.Scheme # "https"
    THEN [err |-> Err("Invalid rekor URL Scheme: " \o p.url.Scheme),
          rekorURL |-> stored]
    ELSE IF p.url.Host = ""
    THEN [err |-> Err("Invalid rekor URL Host: " \o p.url.Host),
          rekorURL |-> stored]
    ELSE [err |-> NIL, rekorURL |-> stored]

\* Sigstoreimpl.SetRekorURL(rekorURL): the error returned and the field after
SetRekorURL(old, rawURL) ==
    LET p == Parse(rawURL) IN
    IF rawURL = << >>
    THEN [err |-> Err("Rekor URL is empty"), rekorURL |-> old]
    ELSE IF p.err # NIL
    THEN [err |-> Err("Error parsing rekor URI: " \o p.err[1]), rekorURL |-> old]
    ELSE IF p.url.Scheme # "" /\ p.url.Scheme # "https"
    THEN [err |-> Err("Invalid rekor URL Scheme: " \o p.url.Scheme),
          rekorURL |-> old]
    ELSE IF p.url.Host = ""
    THEN [err |-> Err("Invalid rekor URL Host: " \o p.url.Host), rekorURL |-> old]
    ELSE [err |-> NIL,
          rekorURL |-> [Scheme |-> p.url.Scheme, Host |-> p.url.Host,
                        Path |-> p.url.Path]]

\* The strings SetRekorURL is called with: an optional scheme, an optional
\* authority and a path.
SchemeParts == {<< >>, <<"https", ":">>, <<"http", ":">>, <<":">>}
AuthorityParts ==
    {<< >>, <<"/", "/">>, <<"/", "/", "rekor.example">>,
     <<"/", "/", "rekor.example", ":", "8080">>,
     <<"/", "/", "rekor.example", ":", "api">>, <<"/", "/", "{">>}
PathParts ==
    {<< >>, <<"/">>, <<"/", "api">>, <<"rekor.example">>,
     <<"rekor.example", ":", "8080">>, <<"8080", ":", "api">>, <<DEL>>}
RekorURLs ==
    {s \o a \o p : s \in SchemeParts, a \in AuthorityParts, p \in PathParts}

\* A call of Sigstoreimpl.SetRekorURL(rawURL)
CallSetRekorURL(rawURL) ==
    /\ ~fault
    /\ LET r == SetRekorURL(rekorURL, rawURL) IN
        /\ rekorURL' = r.rekorURL
        /\ last' = [NoCall EXCEPT !.op = "SetRekorURL", !.arg = <<rawURL>>,
                                  !.err = r.err]
    /\ UNCHANGED <<size, items, skippedImages, allowListEnabled,
                   subjectAllowList, fault, hist, goroutines>>

RekorNext == \E rawURL \in RekorURLs : CallSetRekorURL(rawURL)

RekorSpec == Init /\ [][RekorNext]_vars

(***************************************************************************)
(* Direct calls of the skip-list functions (SkipCheckSpec).                *)
(***************************************************************************)
\* Image identifiers put on the skip list here.
SkipCheckIDs == {EmptyID, TagID, DigestA, DigestB}

\* A call of Sigstoreimpl.ShouldSkipImage(imageID)
CallShouldSkipImage(imageID) ==
    /\ ~fault
    /\ LET r == ShouldSkipImage(skippedImages, imageID) IN
        last' = [NoCall EXCEPT !.op = "ShouldSkipImage", !.imageID = imageID,
                               !.ok = r.skip, !.err = r.err]
    /\ UNCHANGED <<size, items, skippedImages, allowListEnabled,
                   subjectAllowList, rekorURL, fault, hist, goroutines>>

SkipCheckNext ==
    \/ \E imageID \in SkipCheckIDs : AddSkippedImage(imageID)
    \/ ClearSkipList
    \/ \E imageID \in ImageIDs : CallShouldSkipImage(imageID)

SkipCheckSpec == Init /\ [][SkipCheckNext]_vars

(***************************************************************************)
(* Containers that run the same image (SharedImageSpec).                   *)
(***************************************************************************)
\* A call of AttestContainerSignatures for one of two containers, on an
\* image with a digest reference, with any answers of the registry and of
\* the verifier.
AttestShared ==
    \E imageID \in RaceKeys, containerID \in RenderContainerIDs :
        \E m \in ManifestAnswers(imageID, containerID) :
            \E v \in VerifyAnswers(imageID, containerID, m) :
                Attest(imageID, containerID, m, v)

SharedImageNext ==
    \/ AttestShared
    \/ \E subject \in AllowSubjects : AddAllowedSubject(subject)
    \/ ClearAllowedSubjects
    \/ \E flag \in BOOLEAN : EnableAllowSubjectList(flag)

SharedImageSpec == Init /\ [][SharedImageNext]_vars

(***************************************************************************)
(* The earlier engine, whose FetchImageSignatures takes the rekor URL and  *)
(* calls validateImageRefFunction (VariantFetchSpec).                      *)
(***************************************************************************)
\* validateRefDigest of the earlier engine: false and no error for a digest
\* that differs and for a tag
validateRefDigestV1(ref, digest) ==
    IF ref.kind = "digest" /\ ref.digest = digest
    THEN [ok |-> TRUE, err |-> NIL]
    ELSE [ok |-> FALSE, err |-> NIL]

\* ValidateImage of the earlier engine, the validateImageRefFunction that
\* New installs; a nil Manifest is hashed as the empty byte string
ValidateImageV1(ref, m) ==
    IF m.err # NIL THEN [ok |-> FALSE, err |-> m.err]
    ELSE validateRefDigestV1(ref, SHA256(IF m.Manifest = NIL THEN ""
                                         ELSE m.Manifest[1]))

\* FetchImageSignatures(imageName, rekorURL) of the earlier engine
FetchImageSignaturesV1(imageName, rawURL, m, v) ==
    LET p == ParseReference(imageName) IN
    IF p.err # NIL
    THEN [sigs |-> NIL, err |-> Err("Error parsing image reference: " \o p.err[1]),
          trace |-> <<Step("ParseReference", FALSE)>>]
    ELSE
    LET val == ValidateImageV1(p.ref, m)
        u == Parse(rawURL)
        t2 == <<Step("ParseReference", TRUE),
                Step("fetchImageManifestFunction", m.err = NIL),
                Step("validateImageRefFunction", val.ok)>>
    IN
    IF val.err # NIL
    THEN [sigs |-> NIL,
          err |-> Err("Could not validate image reference digest: " \o val.err[1]),
          trace |-> t2]
    ELSE IF rawURL # << >> /\ u.err # NIL
    THEN [sigs |-> NIL, err |-> Err("Error parsing rekor URI: " \o u.err[1]),
          trace |-> t2]
    ELSE IF rawURL # << >> /\ u.url.Scheme # "" /\ u.url.Scheme # "https"
    THEN [sigs |-> NIL, err |-> Err("Invalid rekor URL Scheme: " \o u.url.Scheme),
          trace |-> t2]
    ELSE IF rawURL # << >> /\ u.url.Host = ""
    THEN [sigs |-> NIL, err |-> Err("Invalid rekor URL Host: " \o u.url.Host),
          trace |-> t2]
    ELSE IF v.err # NIL
    THEN [sigs |-> NIL, err |-> Err("Error verifying signature: " \o v.err[1]),
          trace |-> Append(t2, Step("verifyFunction", FALSE))]
    ELSE IF ~v.ok
    THEN [sigs |-> NIL, err |-> Err("Bundle not verified for " \o imageName),
          trace |-> Append(t2, Step("verifyFunction", FALSE))]
    ELSE [sigs |-> v.sigs, err |-> NIL,
          trace |-> Append(t2, Step("verifyFunction", TRUE))]

\* The rekor URLs the earlier engine is called with: none, one it accepts,
\* one with a scheme it rejects and one without a host.
RekorArguments ==
    { << >>,
      <<"https", ":", "/", "/", "rekor.example", "/">>,
      <<"http", ":", "/", "/", "rekor.example">>,
      <<"rekor.example">> }

\* A call of FetchImageSignatures(imageName, rekorURL) of the earlier engine.
\* The function has a value receiver and reads none of the fields modelled
\* here, so one call in a behaviour reaches every outcome it has.
CallFetchImageSignaturesV1(imageName, rawURL, m, v) ==
    /\ last.op = "none"
    /\ LET r == FetchImageSignaturesV1(imageName, rawURL, m, v) IN
        last' = [NoCall EXCEPT !.op = "FetchImageSignaturesV1",
                               !.imageID = imageName,
                               !.arg = <<rawURL>>,
                               !.m = m, !.v = v,
                               !.sigs = r.sigs, !.err = r.err, !.trace = r.trace]
    /\ UNCHANGED <<size, items, skippedImages, allowListEnabled, subjectAllowList,
                   rekorURL, fault, hist, goroutines>>

VariantFetchNext ==
    \E imageName \in ImageIDs, rawURL \in RekorArguments,
       m \in ManifestOutcomes, v \in VerifyOutcomes :
        CallFetchImageSignaturesV1(imageName, rawURL, m, v)

VariantFetchSpec == Init /\ [][VariantFetchNext]_vars

(***************************************************************************)
(* The first engine: ExtractselectorOfSignedImage (PayloadSpec).           *)
(* A string is a sequence of pieces here, so that the removal of braces    *)
(* from the formatted subject is computed.  A JSON document is the value   *)
(* it denotes: an object's members are <<key, value>> pairs in the order   *)
(* of the text.                                                            *)
(***************************************************************************)
MaxPayloads == 2   \* payloads in one list given to ExtractselectorOfSignedImage

\* (*url.URL).String() for a URL with a host and a relative path
URIString(u) ==
    (IF u.Scheme # "" THEN <<u.Scheme, ":">> ELSE << >>)
    \o (IF u.Scheme # "" \/ u.Host # "" THEN <<"//", u.Host>> ELSE << >>)
    \o (IF u.Path # "" /\ u.Host # "" THEN <<"/", u.Path>> ELSE << >>)

\* *x509.Certificate: nil, or one with e-mail addresses, with URIs, with neither
PayloadCerts ==
    { NIL,
      <<[EmailAddresses |-> << <<"spirex@hpe.com">>, <<"hpe@hpe.com">> >>,
         URIs |-> << >>]>>,
      <<[EmailAddresses |-> << >>,
         URIs |-> << [Scheme |-> "https", Host |-> "www.hpe.com",
                      Path |-> "somepath1"],
                     [Scheme |-> "https", Host |-> "www.spirex.com",
                      Path |-> "somepath2"] >>]>>,
      <<[EmailAddresses |-> << >>, URIs |-> << >>]>> }

\* cosign.SignedPayload{Payload, Cert}.  Payload is empty, not JSON, or a
\* JSON object whose "optional" member is absent (NIL) or holds a "subject"
\* member that is absent (NIL), a string (t = "string", s the string) or a
\* number.
SignedPayloads ==
    LET values == { [t |-> "string", s |-> <<"spirex@hpe.com">>],
                    [t |-> "string", s |-> <<"hpe@hpe.com">>],
                    [t |-> "string", s |-> <<"{", "ci", "}", "@hpe.com">>],
                    [t |-> "number", s |-> << >>] }
        optionals == {NIL, <<[subject |-> NIL]>>}
                     \cup { <<[subject |-> <<v>>]>> : v \in values }
    IN
    { [Payload |-> [json |-> json, optional |-> NIL], Cert |-> c] :
        json \in {"empty", "malformed"}, c \in PayloadCerts }
    \cup { [Payload |-> [json |-> "object", optional |-> o], Cert |-> c] :
              o \in optionals, c \in PayloadCerts }

\* The lists given to ExtractselectorOfSignedImage: nil, or a list
PayloadLists == {NIL} \cup { <<l>> : l \in SeqsUpTo(SignedPayloads, MaxPayloads) }

\* certSubject(c) of the first engine, c not nil
certSubjectOfPayload(c) ==
    CASE c.EmailAddresses # << >> -> c.EmailAddresses[1]
      [] c.EmailAddresses = << >> /\ c.URIs # << >> -> URIString(c.URIs[1])
      [] OTHER -> << >>

\* json.Unmarshal(vp.Payload, &ss), then ss.Optional["Subject"] = certSubject:
\* the members of ss.Optional as json.Marshal writes them, sorted by key
\* ("Subject" before "subject").
OptionalOf(vp) ==
    (IF vp.Cert # NIL
     THEN << <<"Subject", [t |-> "string",
                           s |-> certSubjectOfPayload(vp.Cert[1])]>> >>
     ELSE << >>)
    \o (IF vp.Payload.optional # NIL /\ vp.Payload.optional[1].subject # NIL
        THEN << <<"subject", vp.Payload.optional[1].subject[1]>> >>
        ELSE << >>)

\* json.Unmarshal of one member list into Subject{Subject string}: each key
\* that matches the field, exactly or by case, sets it; a value that is not
\* a string is an error.
RECURSIVE DecodeSubject(_, _)
DecodeSubject(members, subject) ==
    IF members = << >> THEN [subject |-> subject, err |-> NIL]
    ELSE IF members[1][2].t # "string"
    THEN [subject |-> subject, err |-> Err("cannot unmarshal number into string")]
    ELSE DecodeSubject(Tail(members), members[1][2].s)

\* re.ReplaceAllString(subject, "") with re = `[{}]`
ReplaceAllBraces(s) == SelectSeq(s, LAMBDA piece : piece \notin {"{", "}"})

\* getOnlySubject(payload): payload is NIL for the text "null", or the list
\* of the member lists of the "optional" objects of a JSON array.
getOnlySubject(payload) ==
    LET selector == IF payload = NIL THEN << >>
                    ELSE [j \in 1..Len(payload[1]) |->
                            DecodeSubject(payload[1][j], << >>)]
    IN
    IF \E j \in 1..Len(selector) : selector[j].err # NIL
    THEN [ret |-> << >>, panic |-> FALSE]
    ELSE IF Len(selector) = 0
    THEN [ret |-> << >>, panic |-> TRUE]
    ELSE [ret |-> ReplaceAllBraces(<<"{", "{">> \o selector[1].subject
                                   \o <<"}", "}">>),
          panic |-> FALSE]

\* getSubjectImage(verified)
getSubjectImage(verified) ==
    IF \E j \in 1..Len(verified) : verified[j].Payload.json # "object"
    THEN [ret |-> << >>, panic |-> FALSE]
    ELSE
    LET outputKeys == [j \in 1..Len(verified) |-> OptionalOf(verified[j])] IN
    getOnlySubject(IF outputKeys = << >> THEN NIL ELSE <<outputKeys>>)

\* Sigstoreimpl.ExtractselectorOfSignedImage(payload)
ExtractselectorOfSignedImage(payload) ==
    IF payload # NIL THEN getSubjectImage(payload[1])
    ELSE [ret |-> << >>, panic |-> FALSE]

\* A call of ExtractselectorOfSignedImage(payload).  The function has a
\* value receiver and no state, so one call in a behaviour reaches every
\* outcome it has.
CallExtractselectorOfSignedImage(payload) ==
    /\ last.op = "none"
    /\ LET r == ExtractselectorOfSignedImage(payload) IN
        last' = [NoCall EXCEPT !.op = "ExtractselectorOfSignedImage",
                               !.arg = <<payload>>,
                               !.panic = r.panic,
                               !.ret = IF r.panic THEN NIL ELSE <<r.ret>>]
    /\ UNCHANGED <<size, items, skippedImages, allowListEnabled, subjectAllowList,
                   rekorURL, fault, hist, goroutines>>

PayloadNext == \E payload \in PayloadLists : CallExtractselectorOfSignedImage(payload)

PayloadSpec == Init /\ [][PayloadNext]_vars

(***************************************************************************)
(* Properties of the cache (CacheSpec).                                    *)
(***************************************************************************)
Present(l, key) == getElement(l, key) # 0

OnlyPuts(h) == \A j \in 1..Len(h) : h[j].op = "Put"

DistinctKeys(h) == \A j, k \in 1..Len(h) : j # k => h[j].key # h[k].key

\* The run so far is size + 1 puts of pairwise distinct keys on a new cache.
FilledPastCapacity ==
    /\ size >= 1
    /\ Len(hist) = size + 1
    /\ OnlyPuts(hist)
    /\ DistinctKeys(hist)

\* C1: on a cache of capacity N >= 1, after N + 1 puts of pairwise distinct
\* keys and nothing else, a lookup of the first key put returns nil and a
\* lookup of each of the other N keys returns the entry put for it.
C1_FirstInsertedEvicted ==
    FilledPastCapacity =>
        /\ GetSignature(items, hist[1].key).ret = NIL
        /\ \A j \in 2..Len(hist) :
              GetSignature(items, hist[j].key).ret = <<Item(hist[j].key, hist[j].value)>>

C1_Witness ==
    /\ FilledPastCapacity
    /\ size = 2
    /\ ~Present(items, hist[1].key)

\* The last call on the cache was a put of a key that was present.
PutOfPresentKey ==
    /\ hist # << >>
    /\ Last(hist).op = "Put"
    /\ Present(Last(hist).pre, Last(hist).key)

\* C2: a put of a key that is already present overwrites the stored value
\* and refreshes recency: the next lookup of the key returns the value just
\* put, and the key is not the least-recently-used entry.
C2_PutOverwritesAndRefreshes ==
    PutOfPresentKey =>
        /\ GetSignature(items, Last(hist).key).ret
              = <<Item(Last(hist).key, Last(hist).value)>>
        /\ Len(items) > 1 => items[Len(items)].Key # Last(hist).key

\* C3: with capacity N >= 1 the cache never holds more than N entries, and a
\* put of a present key, like a put of a new key into a full cache, leaves
\* the number of entries unchanged.
C3_NeverMoreThanCapacity ==
    size >= 1 =>
        /\ Len(items) <= size
        /\ ( /\ hist # << >>
             /\ Last(hist).op = "Put"
             /\ \/ Present(Last(hist).pre, Last(hist).key)
                \/ Len(Last(hist).pre) = size )
           => Len(items) = Len(Last(hist).pre)

C3_Witness ==
    /\ size >= 1
    /\ hist # << >>
    /\ Last(hist).op = "Put"
    /\ ~Present(Last(hist).pre, Last(hist).key)
    /\ Len(Last(hist).pre) = size
    /\ Len(items) = size

(***************************************************************************)
(* Properties of the attestation call (Spec).                              *)
(***************************************************************************)
Attested == last.op = "AttestContainerSignatures"

InSkipList(imageID) == skippedImages # NIL /\ imageID \in skippedImages[1]

\* The call returned exactly the sentinel and neither fetched the manifest
\* nor ran the verifier.
ReturnedSentinelWithoutFetch ==
    /\ last.selectors = <<signatureVerifiedSelector>>
    /\ last.err = NIL
    /\ ~last.panic
    /\ ~Asks(last.trace, "fetchImageManifestFunction")
    /\ ~Asks(last.trace, "verifyFunction")

C5_CacheHitDoesNotFetch ==
    ( /\ Attested
      /\ Present(last.preItems, last.imageID)
      /\ ~ShouldSkipImage(skippedImages, last.imageID).skip )
    => /\ last.trace = <<Step("ShouldSkipImage", FALSE), Step("GetSignature", TRUE)>>
       /\ ~Asks(last.trace, "fetchImageManifestFunction")
       /\ ~Asks(last.trace, "verifyFunction")
       /\ last.err = NIL
       /\ ~last.panic

C5_Witness ==
    /\ Attested
    /\ Present(last.preItems, last.imageID)
    /\ ~ShouldSkipImage(skippedImages, last.imageID).skip
    /\ Len(last.selectors) > 1

\* A step of the fetch (parse, digest validation, verification) failed.
FetchFailed(trace) ==
    \E j \in 1..Len(trace) :
        /\ trace[j].fn \in {"ParseReference", "ValidateImage", "verifyFunction"}
        /\ ~trace[j].ok

\* C6: when parsing, digest validation or verification fails on a cache
\* miss, the attestation returns the error and no selectors, does not call
\* PutSignature, and leaves the cache's entries and their order as they were.
C6_FailedFetchCachesNothing ==
    (Attested /\ FetchFailed(last.trace))
    => /\ last.err # NIL
       /\ last.selectors = NIL
       /\ ~Asks(last.trace, "PutSignature")
       /\ items = last.preItems
       /\ ~fault

C6_Witness ==
    /\ Attested
    /\ FetchFailed(last.trace)
    /\ Asks(last.trace, "verifyFunction")
    /\ items # << >>
    /\ ~Present(items, last.imageID)

\* isAllowed under the allow-list state in force.
Allowed(subject) ==
    ~allowListEnabled \/ (subjectAllowList # NIL /\ subject \in subjectAllowList[1])

\* C7: an attestation served from the cache never renders a subject that
\* fails the allow check under the allow-list state in force when it runs.
C7_CacheHitRespectsAllowList ==
    \A subject \in {Subject1, Subject2} :
        ( /\ Attested
          /\ Contains(last.trace, Step("GetSignature", TRUE))
          /\ Contains(last.selectors,
                      last.containerID \o ":image-signature-subject:" \o subject) )
        => Allowed(subject)

(***************************************************************************)
(* Properties of the signature fetch and of digest validation (FetchSpec). *)
(***************************************************************************)
Fetched == last.op = "FetchImageSignatures"

\* C8: FetchImageSignatures returns an error and no signatures whenever the
\* verifier answers with an error or with verified = false, whatever
\* signatures it also returned; it returns the verifier's signatures only
\* when the verifier's error is nil and verified is true.
C8_UnverifiedIsNeverReturned ==
    Fetched =>
        /\ (Asks(last.trace, "verifyFunction") /\ (last.v.err # NIL \/ ~last.v.ok))
           => (last.err # NIL /\ last.sigs = NIL)
        /\ last.err = NIL
           => /\ Asks(last.trace, "verifyFunction")
              /\ last.v.err = NIL
              /\ last.v.ok
              /\ last.sigs = last.v.sigs

C8_Witness ==
    /\ Fetched
    /\ Asks(last.trace, "verifyFunction")
    /\ last.v.err = NIL
    /\ ~last.v.ok
    /\ last.v.sigs # << >>
    /\ last.err # NIL

\* C9: FetchImageSignatures parses, then validates, then verifies: the
\* verifier runs only after the reference parsed and ValidateImage returned
\* true, and never after a failed parse or a failed validation.
C9_VerifyOnlyAfterValidation ==
    Fetched =>
        \A j \in 1..Len(last.trace) :
            /\ last.trace[j].fn = "verifyFunction"
               => /\ j = Len(last.trace)
                  /\ \E p \in 1..(j - 1) : \E q \in (p + 1)..(j - 1) :
                        /\ last.trace[p] = Step("ParseReference", TRUE)
                        /\ last.trace[q] = Step("ValidateImage", TRUE)
            /\ ( /\ last.trace[j].fn \in {"ParseReference", "ValidateImage"}
                 /\ ~last.trace[j].ok )
               => ~Asks(last.trace, "verifyFunction")

C9_Witness ==
    /\ Fetched
    /\ Asks(last.trace, "verifyFunction")
    /\ last.imageID = DigestB

\* The reference is digest-qualified and the SHA-256 of the fetched manifest
\* equals its digest.
ManifestMatchesDigest(imageName, m) ==
    /\ ParseReference(imageName).ref.kind = "digest"
    /\ m.err = NIL
    /\ m.Manifest # NIL
    /\ SHA256(m.Manifest[1]) = ParseReference(imageName).ref.digest

\* C10: ValidateImage returns true iff the reference is digest-qualified and
\* the SHA-256 of the fetched manifest equals its digest; otherwise (fetch
\* error, nil manifest, mismatch, tag reference) it returns false and a
\* non-nil error.
C10_ValidateImageIffDigestMatches ==
    last.op = "ValidateImage" =>
        /\ last.ok <=> ManifestMatchesDigest(last.imageID, last.m)
        /\ ~last.ok => last.err # NIL

C10_Witness ==
    /\ last.op = "ValidateImage"
    /\ last.imageID = DigestA
    /\ last.m.Manifest = <<"manifestB">>
    /\ ~last.ok
    /\ last.err # NIL

(***************************************************************************)
(* Properties of extraction and rendering inside the attestation (Spec).   *)
(***************************************************************************)
\* The call missed the cache and its fetch returned signatures.
MissedAndFetched ==
    /\ Attested
    /\ Contains(last.trace, Step("GetSignature", FALSE))
    /\ Contains(last.trace, Step("verifyFunction", TRUE))

SubjectString(containerID, subject) ==
    containerID \o ":image-signature-subject:" \o subject

\* C11: on a cache miss, a signature with a non-empty derived subject
\* contributes a selector to the result iff the allow list is disabled or
\* the subject is a member of the allow list.
C11_SubjectContributesIffAllowed ==
    MissedAndFetched =>
        \A j \in 1..Len(last.sigs) :
            LET s == getSignatureSubject(last.sigs[j]) IN
            (s.err = NIL /\ s.subject # "")
            => ( Contains(last.selectors, SubjectString(last.containerID, s.subject))
                 <=> Allowed(s.subject) )

(***************************************************************************)
(* Properties of the extraction and rendering functions (ExtractSpec).     *)
(***************************************************************************)
GotSubject == last.op = "getSignatureSubject"

Extracted == last.op = "ExtractSelectorsFromSignatures"

\* The payload of the signature is unavailable, empty or not JSON.
PayloadUndecodable(sig) == sig.payload.json # "ok"

HasSubject(sel) == sel.Subject # ""

\* C13: a signature whose payload is empty or fails to decode degrades to a
\* selector with Verified = false and raises nothing; the extraction goes on
\* through every remaining signature, and its result is exactly the
\* selectors of the signatures that yielded a subject, in the order of the
\* input list.
C13_UndecodablePayloadsAreSkipped ==
    Extracted =>
        LET each == [j \in 1..Len(last.sigs) |->
                        SelectorValuesFromSignature(last.sigs[j], last.containerID,
                                                    allowListEnabled,
                                                    subjectAllowList)]
            sels == [j \in 1..Len(last.sigs) |-> each[j].sel]
        IN
        /\ \A j \in 1..Len(last.sigs) :
              PayloadUndecodable(last.sigs[j])
              => (~each[j].panic /\ ~each[j].sel.Verified)
        /\ ~last.panic
        /\ last.ret[1] = SelectSeq(sels, HasSubject)

Rendered == last.op = "selectorsToString"

Field(name, value) == [name |-> name, value |-> value]

NonEmptyField(f) == f.value # ""

\* The four fields of a selector in the order subject, content, logid,
\* integrated-time.
FieldsInOrder(sel) ==
    << Field("subject", sel.Subject), Field("content", sel.Content),
       Field("logid", sel.LogID), Field("integrated-time", sel.IntegratedTime) >>

\* C16: rendering one selector for container ID c emits, in the order
\* subject, content, logid, integrated-time, one string
\* "c:image-signature-<field>:<value>" for each non-empty field and nothing
\* for an empty field: between 0 and 4 strings, each starting with c.
C16_OneStringPerNonEmptyField ==
    Rendered =>
        LET out == last.ret[1]
            present == SelectSeq(FieldsInOrder(last.arg[1]), NonEmptyField)
        IN
        /\ Len(out) = Len(present)
        /\ Len(out) \in 0..4
        /\ \A j \in 1..Len(out) :
              out[j] = last.containerID \o ":image-signature-" \o present[j].name
                       \o ":" \o present[j].value

C16_Witness ==
    /\ Rendered
    /\ last.containerID = "c2"
    /\ last.arg[1].Subject = ""
    /\ last.arg[1].IntegratedTime = ""
    /\ last.ret[1] = << "c2:image-signature-content:MEUCIG6n",
                        "c2:image-signature-logid:c0d23d6a" >>

(***************************************************************************)
(* Properties of the output of the attestation call (Spec).                *)
(***************************************************************************)
\* The fetch returned exactly one signature: its payload decodes, it carries
\* a certificate with an email address and it has no bundle.
OneCertEmailSignatureWithoutBundle ==
    /\ Len(last.sigs) = 1
    /\ last.sigs[1].payload.json = "ok"
    /\ last.sigs[1].cert # NIL
    /\ last.sigs[1].cert[1].EmailAddresses # << >>
    /\ last.sigs[1].bundle = NIL

\* C14: with an empty cache, an image that is not in the skip list, the
\* allow list disabled and a fetch that returns one verified signature with
\* a certificate email e and no bundle, the attestation for container c
\* returns exactly <<"c:image-signature-subject:e", sentinel>> and no error.
C14_CertEmailWithoutBundleEndToEnd ==
    ( /\ MissedAndFetched
      /\ last.preItems = << >>
      /\ ~InSkipList(last.imageID)
      /\ ~allowListEnabled
      /\ OneCertEmailSignatureWithoutBundle )
    => /\ ~last.panic
       /\ last.err = NIL
       /\ last.selectors
             = <<SubjectString(last.containerID, last.sigs[1].cert[1].EmailAddresses[1]),
                 signatureVerifiedSelector>>

\* The Value of the entry of key in the list l (empty when there is none).
ValueOf(l, key) == IF Present(l, key) THEN l[getElement(l, key)].Value ELSE << >>

\* The selectors the call retained: those of the cache entry it found, or
\* those it extracted and stored.
Retained ==
    IF Contains(last.trace, Step("GetSignature", TRUE))
    THEN ValueOf(last.preItems, last.imageID)
    ELSE IF Contains(last.trace, Step("PutSignature", TRUE))
    THEN ValueOf(items, last.imageID)
    ELSE << >>

SentinelPositions ==
    { j \in 1..Len(last.selectors) : last.selectors[j] = signatureVerifiedSelector }

\* The sentinel is in the output iff cause holds; when it is there it is
\* there once, as the last element; when it is not, the output is empty.
SentinelExactlyWhen(cause) ==
    /\ (SentinelPositions # {}) <=> cause
    /\ SentinelPositions # {} => SentinelPositions = {Len(last.selectors)}
    /\ SentinelPositions = {} => last.selectors = NIL

ShortCircuited ==
    /\ last.trace = <<Step("ShouldSkipImage", TRUE)>>
    /\ last.selectors = <<signatureVerifiedSelector>>
    /\ last.err = NIL

NoKeyTwice(l) == \A j, k \in 1..Len(l) : l[j].Key = l[k].Key => j = k

\* C17: with goroutines calling GetSignature and PutSignature concurrently
\* on one cache of capacity N >= 1, in every reachable state no key is
\* stored twice and the number of entries does not exceed the capacity.
C17_ConcurrentCallsKeepCacheConsistent ==
    size >= 1 => (NoKeyTwice(items) /\ Len(items) <= size)

(***************************************************************************)
(* Properties of the skip list under concurrent calls (SkipListSpec).      *)
(***************************************************************************)
\* Some but not all of the entries of before are missing from list.
PartlyCleared(list, before) ==
    /\ before # NIL
    /\ list # NIL
    /\ before[1] \ list[1] # {}
    /\ before[1] \cap list[1] # {}

\* C18: a ShouldSkipImage that runs during a ClearSkipList reads either the
\* complete skip list from before the clear or the cleared one, never a
\* skip list from which only some of the entries have been removed.
C18_ShouldSkipImageNeverSeesPartList ==
    \A g \in Goroutines :
        (goroutines[g].op = "ShouldSkipImage" /\ goroutines[g].seen # NIL)
        => \A before \in goroutines[g].seen[1].clearing :
              ~PartlyCleared(goroutines[g].seen[1].list, before)

(***************************************************************************)
(* Properties of concurrent attestations (ConcurrentAttestSpec).           *)
(***************************************************************************)
\* The last put on the cache was made by an attestation that had missed the
\* cache, for a key that another attestation had stored in the meantime.
SecondPutOfConcurrentMisses ==
    /\ hist # << >>
    /\ Last(hist).op = "Put"
    /\ ~Last(hist).panic
    /\ Present(Last(hist).pre, Last(hist).key)

\* C19: when two concurrent attestations of the same imageID both miss the
\* cache and both fetch, then once both have run their PutSignature, and
\* until the entry is evicted or put again, the cache holds the value of the
\* PutSignature that ran last and GetSignature(imageID) returns it.
C19_LastPutOfConcurrentMissesWins ==
    SecondPutOfConcurrentMisses
    => GetSignature(items, Last(hist).key).ret
          = <<Item(Last(hist).key, Last(hist).value)>>

(***************************************************************************)
(* Properties of the transparency-log endpoint (RekorSpec).                *)
(***************************************************************************)
SetRekor == last.op = "SetRekorURL"

\* The inputs the endpoint rule names: the empty string, or a URL whose
\* scheme, if present, is https and whose host, if a scheme is present, is
\* not empty.
NamedByEndpointRule(rawURL) ==
    \/ rawURL = << >>
    \/ LET p == Parse(rawURL) IN
        /\ p.err = NIL
        /\ p.url.Scheme \in {"", "https"}
        /\ p.url.Scheme # "" => p.url.Host # ""

\* C21: SetRekorURL returns no error exactly for the empty string and for a
\* URL whose scheme, if present, is https and whose host, if a scheme is
\* present, is not empty; every other input is rejected with an error.
C21_SetRekorURLAcceptsExactlyTheNamedInputs ==
    SetRekor => (last.err = NIL <=> NamedByEndpointRule(last.arg[1]))

(***************************************************************************)
(* Properties of the skip check (SkipCheckSpec).                           *)
(***************************************************************************)
AskedToSkip == last.op = "ShouldSkipImage"

\* The error comes exactly for an empty imageID on a non-nil skip list, and
\* a nil skip list answers (false, no error) whatever the imageID.
ErrorOnlyForEmptyID ==
    /\ last.err # NIL <=> (last.imageID = "" /\ skippedImages # NIL)
    /\ skippedImages = NIL => (~last.ok /\ last.err = NIL)

After(j) == IF j = Len(hist) THEN items ELSE hist[j + 1].pre

\* Call j of the history is a lookup of a key the cache did not hold.
GetOfAbsentKey(j) ==
    /\ hist[j].op = "Get"
    /\ ~Present(hist[j].pre, hist[j].key)

\* C23: GetSignature of a key that is not in the cache returns nil, not a
\* zero-valued Item, and leaves the entries of the cache and their recency
\* order as they were.
C23_GetOfAbsentKeyReturnsNil ==
    \A j \in 1..Len(hist) :
        GetOfAbsentKey(j) => (hist[j].ret = NIL /\ After(j) = hist[j].pre)

C23_Witness ==
    \E j \in 1..Len(hist) :
        /\ GetOfAbsentKey(j)
        /\ Len(hist[j].pre) = 2
        /\ hist[j].ret = NIL

KeysOf(l) == {l[j].Key : j \in 1..Len(l)}

\* Call k of the history used key: it put it, or looked it up and found it.
Uses(k, key) ==
    /\ hist[k].key = key
    /\ hist[k].op = "Put" \/ hist[k].ret # NIL

\* The position in the history of the most recent use of key among the
\* first j calls, 0 when there is none.
LastUse(j, key) ==
    IF \E k \in 1..j : Uses(k, key)
    THEN CHOOSE k \in 1..j : Uses(k, key) /\ \A m \in (k + 1)..j : ~Uses(m, key)
    ELSE 0

\* The least recently used, after the first j calls, of the keys in S.
LeastRecentlyUsed(j, S) ==
    {k \in S : \A o \in S : LastUse(j, k) <= LastUse(j, o)}

GetOfPresentKey(j) ==
    /\ hist[j].op = "Get"
    /\ Present(hist[j].pre, hist[j].key)

PutOfNewKey(j) ==
    /\ hist[j].op = "Put"
    /\ ~Present(hist[j].pre, hist[j].key)

\* The keys call j removed from the cache.
Evicted(j) == KeysOf(hist[j].pre) \ KeysOf(After(j))

\* C24: GetSignature of a present key returns the stored value and makes
\* the key the most recently used: when the cache is full (capacity N) the
\* key survives the next N - 1 puts of new keys, and the next put of a new
\* key evicts the least recently used of the other keys.
C24_GetRefreshesRecency ==
    \A j \in 1..Len(hist) :
        GetOfPresentKey(j) =>
            LET key == hist[j].key
                others == KeysOf(hist[j].pre) \ {key}
            IN
            /\ hist[j].ret = <<hist[j].pre[getElement(hist[j].pre, key)]>>
            /\ After(j)[1].Key = key
            /\ Len(hist[j].pre) = size =>
                /\ \A m \in (j + 1)..Len(hist) :
                      ( /\ m - j <= size - 1
                        /\ \A k \in (j + 1)..m : PutOfNewKey(k) )
                      => Present(After(m), key)
                /\ (j < Len(hist) /\ PutOfNewKey(j + 1) /\ others # {})
                      => Evicted(j + 1) = LeastRecentlyUsed(j, others)

C24_Witness ==
    /\ size = 2
    /\ Len(hist) = 4
    /\ GetOfPresentKey(3)
    /\ Len(hist[3].pre) = 2
    /\ hist[3].pre[2].Key = hist[3].key
    /\ PutOfNewKey(4)
    /\ Present(items, hist[3].key)
    /\ Evicted(4) = {hist[3].pre[1].Key}

\* Call j of the history put a new key into a full cache that holds entries.
PutOfNewKeyIntoFullCache(j) ==
    /\ PutOfNewKey(j)
    /\ size >= 1
    /\ Len(hist[j].pre) = size

\* The list l without its element at position p.
Without(l, p) == SubSeq(l, 1, p - 1) \o SubSeq(l, p + 1, Len(l))

YieldsAllowedSubject(sig) ==
    LET s == getSignatureSubject(sig) IN
    s.err = NIL /\ s.subject # "" /\ Allowed(s.subject)

\* The call missed the cache, its fetch succeeded, and none of the fetched
\* signatures yields an allowed subject.
FetchedWithoutAllowedSubject ==
    /\ Attested
    /\ Contains(last.trace, Step("GetSignature", FALSE))
    /\ Contains(last.trace, Step("verifyFunction", TRUE))
    /\ \A j \in 1..Len(last.sigs) : ~YieldsAllowedSubject(last.sigs[j])

\* The call found an entry with an empty selector list in the cache.
HitOnEmptyEntry ==
    /\ Attested
    /\ ~ShouldSkipImage(skippedImages, last.imageID).skip
    /\ Present(last.preItems, last.imageID)
    /\ ValueOf(last.preItems, last.imageID) = << >>

SelectorValuesTaken == last.op = "SelectorValuesFromSignature"

\* C27: for a signature with a non-empty allowed subject and no bundle
\* (Bundle() returns nil and no error), SelectorValuesFromSignature
\* completes without fault and returns the subject, Verified = true and
\* empty Content, LogID and IntegratedTime.
C27_MissingBundleIsNotAnError ==
    ( /\ SelectorValuesTaken
      /\ YieldsAllowedSubject(last.arg[1])
      /\ last.arg[1].bundle = NIL )
    => /\ ~last.panic
       /\ ~fault
       /\ last.ret = <<Selectors(getSignatureSubject(last.arg[1]).subject,
                                 "", "", "", TRUE)>>

(***************************************************************************)
(* Properties of containers that run the same image (SharedImageSpec).     *)
(***************************************************************************)
\* The strings that follow the container ID in the selector strings of the
\* cache entry value.
ScopedSuffixes(value) ==
    UNION { { ":image-signature-subject:" \o value[j].Subject,
              ":image-signature-content:" \o value[j].Content,
              ":image-signature-logid:" \o value[j].LogID,
              ":image-signature-integrated-time:" \o value[j].IntegratedTime }
            : j \in 1..Len(value) }

\* The string s with the prefix from replaced by the prefix to, when s is a
\* selector string scoped by from; s itself otherwise (the sentinel).
ReplacePrefix(s, from, to, suffixes) ==
    IF \E x \in suffixes : s = from \o x
    THEN to \o (CHOOSE x \in suffixes : s = from \o x)
    ELSE s

ReplacePrefixes(out, from, to, suffixes) ==
    [j \in 1..Len(out) |-> ReplacePrefix(out[j], from, to, suffixes)]

\* What a miss renders for containerID from the fetched signatures sigs
\* under the allow list in force.
MissOutput(sigs, containerID) ==
    LET ex == ExtractSelectorsFromSignatures(sigs, containerID, allowListEnabled,
                                             subjectAllowList)
    IN IF ex.selectors = << >> THEN NIL
       ELSE Append(RenderAll(ex.selectors, containerID), signatureVerifiedSelector)

\* The last call stored the entry of its image.
StoredEntry == Attested /\ Contains(last.trace, Step("PutSignature", TRUE))

\* C28: when the attestation of one container stored the cache entry of an
\* image and the next attestation is for another container that runs the
\* same image, it is a cache hit, its output is the output of the first with
\* the container prefix replaced in every scoped string, and these are the
\* strings a miss for the second container would have produced.
C28_HitRendersForTheAskingContainer ==
    [][ ( /\ StoredEntry
          /\ last'.op = "AttestContainerSignatures"
          /\ last'.imageID = last.imageID
          /\ last'.containerID # last.containerID )
        => /\ last'.trace = <<Step("ShouldSkipImage", FALSE), Step("GetSignature", TRUE)>>
           /\ last'.err = NIL
           /\ last'.selectors =
                 ReplacePrefixes(last.selectors, last.containerID, last'.containerID,
                                 ScopedSuffixes(ValueOf(items, last.imageID)))
           /\ last'.selectors = MissOutput(last.sigs, last'.containerID)
      ]_vars

C28_Witness ==
    /\ Attested
    /\ last.containerID = "c2"
    /\ Contains(last.trace, Step("GetSignature", TRUE))
    /\ Contains(last.selectors, SubjectString("c2", Subject1))
    /\ Len(last.selectors) > 2

(***************************************************************************)
(* Properties of the course of one attestation call (Spec).                *)
(***************************************************************************)
\* The terminal states of a call: selectors and no error, or an error and
\* no selectors.  A call that panicked returned neither.
Done == ~last.panic /\ last.err = NIL
Failed == ~last.panic /\ last.err # NIL /\ last.selectors = NIL

\* No step of the call was run twice.
NoStepTwice(trace) ==
    \A j, k \in 1..Len(trace) : j # k => trace[j].fn # trace[k].fn

\* C29: every AttestContainerSignatures call, given that the manifest fetch
\* and the verifier return, ends in exactly one of Done (selectors, no
\* error) and Failed (error, no selectors); it never returns selectors
\* together with an error, and it passes through no state twice.
C29_EveryCallEndsDoneOrFailed ==
    Attested =>
        /\ Done \/ Failed
        /\ ~(Done /\ Failed)
        /\ ~(last.selectors # NIL /\ last.err # NIL)
        /\ NoStepTwice(last.trace)

\* How many times the call ran the step fn.
Times(trace, fn) == Cardinality({j \in 1..Len(trace) : trace[j].fn = fn})

\* C30: within one AttestContainerSignatures call the verifier and the
\* manifest fetch are each invoked at most once; after a failed step of the
\* fetch nothing more is run (no retry); a cache miss leads to exactly one
\* fetch attempt, and a call that does not miss makes none.
C30_SingleFetchAttemptPerCall ==
    Attested =>
        /\ Times(last.trace, "verifyFunction") <= 1
        /\ Times(last.trace, "fetchImageManifestFunction") <= 1
        /\ \A j \in 1..Len(last.trace) :
              ( /\ last.trace[j].fn \in {"ParseReference", "fetchImageManifestFunction",
                                         "ValidateImage", "verifyFunction"}
                /\ ~last.trace[j].ok )
              => \A k \in (j + 1)..Len(last.trace) :
                    last.trace[k].fn = "ValidateImage" /\ k = j + 1
        /\ Times(last.trace, "ParseReference")
              = IF Contains(last.trace, Step("GetSignature", FALSE)) THEN 1 ELSE 0

C30_Witness ==
    /\ Attested
    /\ Contains(last.trace, Step("GetSignature", FALSE))
    /\ Last(last.trace) = Step("verifyFunction", FALSE)
    /\ Times(last.trace, "verifyFunction") = 1
    /\ last.err # NIL

(***************************************************************************)
(* Properties of the earlier engine's fetch (VariantFetchSpec).            *)
(***************************************************************************)
FetchedV1 == last.op = "FetchImageSignaturesV1"

\* The reference parsed, the manifest was fetched, and the reference is a
\* tag or a digest that differs from the hash of the manifest.
ManifestDoesNotMatch ==
    /\ ParseReference(last.imageID).err = NIL
    /\ last.m.err = NIL
    /\ last.m.Manifest # NIL
    /\ ~ManifestMatchesDigest(last.imageID, last.m)

\* C31: in the earlier engine a digest reference whose digest differs from
\* the hash of the fetched manifest, and likewise a tag reference, makes
\* FetchImageSignatures fail before the verifier is invoked.
C31_MismatchFailsBeforeVerifier ==
    (FetchedV1 /\ ManifestDoesNotMatch)
        => (last.err # NIL /\ ~Asks(last.trace, "verifyFunction"))

(***************************************************************************)
(* Properties of the attestation call, its frame (Spec).                   *)
(***************************************************************************)
\* C32: AttestContainerSignatures with an empty ImageID while the skip
\* list is non-nil ends in Failed: it returns an error and no selectors,
\* does not return the sentinel, and writes nothing to the cache.
C32_EmptyImageIDFails ==
    (Attested /\ last.imageID = "" /\ skippedImages # NIL)
    => /\ Failed
       /\ ~Contains(last.selectors, signatureVerifiedSelector)
       /\ ~Asks(last.trace, "PutSignature")
       /\ items = last.preItems

C32_Witness ==
    /\ Attested
    /\ last.imageID = ""
    /\ InSkipList("")
    /\ last.preItems # << >>
    /\ last.err # NIL

(***************************************************************************)
(* Properties of ExtractselectorOfSignedImage (PayloadSpec).               *)
(***************************************************************************)
ExtractselectorCalled == last.op = "ExtractselectorOfSignedImage"

Decodes(vp) == vp.Payload.json = "object"

\* The subjects a payload carries: the one of its "optional" object and
\* the one of its certificate.
SubjectsOf(vp) ==
    (IF vp.Payload.optional # NIL /\ vp.Payload.optional[1].subject # NIL
        /\ vp.Payload.optional[1].subject[1].t = "string"
     THEN {vp.Payload.optional[1].subject[1].s} ELSE {})
    \cup (IF vp.Cert # NIL THEN {certSubjectOfPayload(vp.Cert[1])} ELSE {})

\* C33: ExtractselectorOfSignedImage returns a string for every payload
\* list and never faults: nil, the empty list that is not nil, and a list
\* with an empty or malformed payload give the empty string; a list whose
\* payloads all decode gives the subject of its first payload (the empty
\* string when that payload carries none).
C33_ReturnsAStringForEveryList ==
    ExtractselectorCalled =>
        LET payload == last.arg[1] IN
        /\ ~last.panic
        /\ last.ret # NIL
        /\ payload = NIL => last.ret = << << >> >>
        /\ payload # NIL =>
            LET l == payload[1] IN
            /\ l = << >> => last.ret = << << >> >>
            /\ (\E j \in 1..Len(l) : ~Decodes(l[j])) => last.ret = << << >> >>
            /\ (l # << >> /\ \A j \in 1..Len(l) : Decodes(l[j])) =>
                    IF SubjectsOf(l[1]) = {} THEN last.ret = << << >> >>
                    ELSE last.ret[1] \in SubjectsOf(l[1])

(***************************************************************************)
(* The stored endpoint (RekorSpec).                                        *)
(***************************************************************************)
\* The fields of a parsed URL that Sigstoreimpl.rekorURL is read for.
Endpoint(u) == [Scheme |-> u.Scheme, Host |-> u.Host, Path |-> u.Path]

WellFormedEndpoint(u) == u.Scheme \in {"", "https"} /\ u.Host # ""

\* C34: a SetRekorURL call that returns an error leaves the stored endpoint
\* as it was; a call that returns none stores the parse of its argument,
\* whose scheme is empty or https and whose host is not empty.  The
\* endpoint starts as the default of New, so after any calls it is that
\* default or the parse of the last accepted argument.
C34_EndpointIsDefaultOrLastAccepted ==
    [][ /\ last'.op = "SetRekorURL"
        /\ last'.err # NIL => rekorURL' = rekorURL
        /\ last'.err = NIL =>
            /\ rekorURL' = Endpoint(Parse(last'.arg[1]).url)
            /\ WellFormedEndpoint(rekorURL')
        /\ rekorURL' = DefaultRekorURL \/ WellFormedEndpoint(rekorURL')
      ]_vars

\* A call was rejected after another had been accepted.
C34_Witness ==
    /\ SetRekor
    /\ last.err # NIL
    /\ rekorURL # DefaultRekorURL
    /\ WellFormedEndpoint(rekorURL)

(***************************************************************************)
(* Keys of the cache under sequential calls (CacheSpec).                   *)
(***************************************************************************)
EntriesFor(key) == {j \in 1..Len(items) : items[j].Key = key}

\* C35: after any sequence of GetSignature and PutSignature calls made one
\* after the other, each key has at most one entry in the cache, and
\* GetSignature of a key that has one returns that entry.
C35_OneEntryPerKey ==
    \A key \in CacheKeys :
        /\ Cardinality(EntriesFor(key)) <= 1
        /\ \A j \in EntriesFor(key) : GetSignature(items, key).ret = <<items[j]>>

\* A key that had an entry was put again, and the cache holds two entries.
C35_Witness ==
    /\ Len(items) = 2
    /\ \E j \in 1..Len(hist) :
        /\ hist[j].op = "Put"
        /\ Present(hist[j].pre, hist[j].key)
        /\ Len(hist[j].pre) = 2

(***************************************************************************)
(* What the cache holds and what is rendered (Spec).                       *)
(***************************************************************************)
VerifiedWithSubject(sel) == sel.Verified /\ sel.Subject # ""

OnlyVerified(l) ==
    \A j \in 1..Len(l) : \A k \in 1..Len(l[j].Value) :
        VerifiedWithSubject(l[j].Value[k])

\* What a call that was not skipped and returned no error renders from the
\* selector list value.
OutputOf(value, containerID) ==
    IF value = << >> THEN NIL
    ELSE Append(RenderAll(value, containerID), signatureVerifiedSelector)

\* C36: every selector held in a cache entry written by
\* AttestContainerSignatures has Verified = true and a non-empty Subject;
\* the selectors of an entry the call writes pass the allow check in force
\* during that call; and what a call renders is the selector list of the
\* cache entry of its image, so a selector with Verified = false is neither
\* stored nor rendered.
C36_OnlyVerifiedSelectorsAreStoredAndRendered ==
    [][ /\ OnlyVerified(items')
        /\ (last'.op = "AttestContainerSignatures" /\ ~last'.panic
            /\ Contains(last'.trace, Step("PutSignature", TRUE))) =>
                /\ items'[1].Key = last'.imageID
                /\ \A k \in 1..Len(items'[1].Value) :
                        Allowed(items'[1].Value[k].Subject)
        /\ (last'.op = "AttestContainerSignatures" /\ ~last'.panic /\ last'.err = NIL
            /\ ~ShouldSkipImage(skippedImages, last'.imageID).skip) =>
                last'.selectors =
                    OutputOf(ValueOf(items', last'.imageID), last'.containerID)
      ]_vars

\* With the allow list in force, the call stored an entry that holds a
\* selector and rendered it.
C36_Witness ==
    /\ StoredEntry
    /\ allowListEnabled
    /\ ~last.panic
    /\ ValueOf(items, last.imageID) # << >>
    /\ Len(last.selectors) >= 2

(***************************************************************************)
(* The allow list switched on while it is empty (Spec).                    *)
(***************************************************************************)
\* The last call missed the cache and its fetch succeeded, with the allow
\* list in force and holding no subject.
MissUnderEmptyAllowList ==
    /\ Attested
    /\ allowListEnabled
    /\ (subjectAllowList = NIL \/ subjectAllowList[1] = {})
    /\ Contains(last.trace, Step("GetSignature", FALSE))
    /\ Contains(last.trace, Step("verifyFunction", TRUE))

EmptyOutput == ~last.panic /\ last.err = NIL /\ last.selectors = NIL

\* C37: AddAllowedSubject leaves the allow list switch as it is; and with
\* the allow list switched on while it is nil or empty, every attestation
\* that misses the cache and fetches successfully returns an empty output,
\* without the sentinel, whatever signatures were verified.
C37_EmptyAllowListSuppressesEverySubject ==
    [][ /\ last'.op = "AddAllowedSubject" => allowListEnabled' = allowListEnabled
        /\ MissUnderEmptyAllowList' => EmptyOutput'
      ]_vars

(***************************************************************************)
(* The cache during the attestation of a skip-listed image (Spec).         *)
(***************************************************************************)
\* The last call made no call on the cache and left its list as it was.
CacheUntouched ==
    /\ ~Asks(last.trace, "GetSignature")
    /\ ~Asks(last.trace, "PutSignature")
    /\ items = last.preItems

C39_PutIntoCacheOfCapacityZero ==
    size = 0 =>
        /\ \A j \in 1..Len(hist) : hist[j].op = "Put" => ~hist[j].panic
        /\ ~fault
        /\ Len(items) <= 0
=============================================================================
